---- MODULE Spec2Model ----
(***************************************************************************)
(* A model of the IAB Ad Product Taxonomy connector (mixpeek_iab_product): *)
(* the taxonomy table and its lookups (taxonomy.py), the keyword matcher   *)
(* (keyword_mapping.py), the result cache (cache.py) and the               *)
(* ProductMapper orchestrator (mapper.py).                                 *)
(*                                                                         *)
(* Conventions.  Python strings are TLA+ strings, handled character by     *)
(* character with Len, SubSeq and \o.  Confidences are integers in         *)
(* hundredths (0.95 is 95).  A Python value whose type matters to the code *)
(* is a record [ty, v].  A dict is a record; an optional key is a field    *)
(* that is in the record's DOMAIN or not.  A value the code computes once  *)
(* and uses several times is bound once too, as the parameter of a local   *)
(* operator.                                                               *)
(***************************************************************************)
EXTENDS Integers, Sequences, FiniteSets, TLC

(***************************************************************************)
(* Bounds of the model.                                                    *)
(***************************************************************************)
MaxCalls == 2

MaxLatency == 1

(***************************************************************************)
(* Static tables (taxonomy.py, keyword_mapping.py).                        *)
(***************************************************************************)
NoParent == 0

(* The items of the dict IAB_AD_PRODUCT_TIER1, in the order of the source:
   id and {id, name, tier} (there is no parent key). *)
IAB_AD_PRODUCT_TIER1_ITEMS ==
  << <<1001, [id |-> 1001, name |-> "Ad Safety Risk", tier |-> 1]>>,
     <<1002, [id |-> 1002, name |-> "Alcohol", tier |-> 1]>>,
     <<1008, [id |-> 1008, name |-> "Adult Products and Services", tier |-> 1]>>,
     <<1010, [id |-> 1010, name |-> "Business and Industrial", tier |-> 1]>>,
     <<1050, [id |-> 1050, name |-> "Cannabis", tier |-> 1]>>,
     <<1055, [id |-> 1055, name |-> "Clothing and Accessories", tier |-> 1]>>,
     <<1085, [id |-> 1085, name |-> "Collectables and Antiques", tier |-> 1]>>,
     <<1090, [id |-> 1090, name |-> "Computer Software", tier |-> 1]>>,
     <<1110, [id |-> 1110, name |-> "Cosmetic Services", tier |-> 1]>>,
     <<1115, [id |-> 1115, name |-> "Consumer Electronics", tier |-> 1]>>,
     <<1150, [id |-> 1150, name |-> "Consumer Packaged Goods", tier |-> 1]>>,
     <<1200, [id |-> 1200, name |-> "Culture and Fine Arts", tier |-> 1]>>,
     <<1210, [id |-> 1210, name |-> "Dating", tier |-> 1]>>,
     <<1215, [id |-> 1215, name |-> "Debated Sensitive Social Issue", tier |-> 1]>>,
     <<1220, [id |-> 1220, name |-> "Dieting and Weight Loss", tier |-> 1]>>,
     <<1225, [id |-> 1225, name |-> "Durable Goods", tier |-> 1]>>,
     <<1260, [id |-> 1260, name |-> "Education and Careers", tier |-> 1]>>,
     <<1290, [id |-> 1290, name |-> "Events and Performances", tier |-> 1]>>,
     <<1310, [id |-> 1310, name |-> "Family and Parenting", tier |-> 1]>>,
     <<1340, [id |-> 1340, name |-> "Finance and Insurance", tier |-> 1]>>,
     <<1390, [id |-> 1390, name |-> "Fitness Activities", tier |-> 1]>>,
     <<1410, [id |-> 1410, name |-> "Food and Beverage Services", tier |-> 1]>>,
     <<1440, [id |-> 1440, name |-> "Gambling", tier |-> 1]>>,
     <<1460, [id |-> 1460, name |-> "Gifts and Holiday Items", tier |-> 1]>>,
     <<1470, [id |-> 1470, name |-> "Green/Eco", tier |-> 1]>>,
     <<1480, [id |-> 1480, name |-> "Health and Medical Services", tier |-> 1]>>,
     <<1520, [id |-> 1520, name |-> "Home and Garden Services", tier |-> 1]>>,
     <<1550, [id |-> 1550, name |-> "Legal Services", tier |-> 1]>>,
     <<1560, [id |-> 1560, name |-> "Media", tier |-> 1]>>,
     <<1610, [id |-> 1610, name |-> "Metals", tier |-> 1]>>,
     <<1620, [id |-> 1620, name |-> "Non-Fiat Currency", tier |-> 1]>>,
     <<1630, [id |-> 1630, name |-> "Non-Profits", tier |-> 1]>>,
     <<1640, [id |-> 1640, name |-> "Personal/Consumer Telecom", tier |-> 1]>>,
     <<1660, [id |-> 1660, name |-> "Pet Ownership", tier |-> 1]>>,
     <<1680, [id |-> 1680, name |-> "Pharmaceuticals", tier |-> 1]>>,
     <<1710, [id |-> 1710, name |-> "Politics", tier |-> 1]>>,
     <<1720, [id |-> 1720, name |-> "Real Estate", tier |-> 1]>>,
     <<1740, [id |-> 1740, name |-> "Religion and Spirituality", tier |-> 1]>>,
     <<1750, [id |-> 1750, name |-> "Retail", tier |-> 1]>>,
     <<1760, [id |-> 1760, name |-> "Sexual Health", tier |-> 1]>>,
     <<1770, [id |-> 1770, name |-> "Sporting Goods", tier |-> 1]>>,
     <<1800, [id |-> 1800, name |-> "Tobacco", tier |-> 1]>>,
     <<1810, [id |-> 1810, name |-> "Travel and Tourism", tier |-> 1]>>,
     <<1860, [id |-> 1860, name |-> "Vehicles", tier |-> 1]>>,
     <<1920, [id |-> 1920, name |-> "Weapons and Ammunition", tier |-> 1]>> >>

(* The items of the dict IAB_AD_PRODUCT_TAXONOMY, in the order of the source:
   id and {id, name, tier, parent}; Python's parent None is NoParent. *)
IAB_AD_PRODUCT_TAXONOMY_ITEMS ==
  << <<1002, [id |-> 1002, name |-> "Alcohol", tier |-> 1, parent |-> NoParent]>>,
     <<1003, [id |-> 1003, name |-> "Bars", tier |-> 2, parent |-> 1002]>>,
     <<1004, [id |-> 1004, name |-> "Beer", tier |-> 2, parent |-> 1002]>>,
     <<1005, [id |-> 1005, name |-> "Hard Sodas, Seltzers, Alco Pops", tier |-> 2, parent |-> 1002]>>,
     <<1006, [id |-> 1006, name |-> "Spirits", tier |-> 2, parent |-> 1002]>>,
     <<1007, [id |-> 1007, name |-> "Wine", tier |-> 2, parent |-> 1002]>>,
     <<1010, [id |-> 1010, name |-> "Business and Industrial", tier |-> 1, parent |-> NoParent]>>,
     <<1011, [id |-> 1011, name |-> "Advertising and Marketing", tier |-> 2, parent |-> 1010]>>,
     <<1012, [id |-> 1012, name |-> "Business Services", tier |-> 2, parent |-> 1010]>>,
     <<1020, [id |-> 1020, name |-> "Construction", tier |-> 2, parent |-> 1010]>>,
     <<1025, [id |-> 1025, name |-> "Energy Industry", tier |-> 2, parent |-> 1010]>>,
     <<1030, [id |-> 1030, name |-> "Manufacturing", tier |-> 2, parent |-> 1010]>>,
     <<1040, [id |-> 1040, name |-> "Transportation and Logistics", tier |-> 2, parent |-> 1010]>>,
     <<1045, [id |-> 1045, name |-> "Agriculture", tier |-> 2, parent |-> 1010]>>,
     <<1050, [id |-> 1050, name |-> "Cannabis", tier |-> 1, parent |-> NoParent]>>,
     <<1051, [id |-> 1051, name |-> "CBD Products", tier |-> 2, parent |-> 1050]>>,
     <<1052, [id |-> 1052, name |-> "THC Products", tier |-> 2, parent |-> 1050]>>,
     <<1055, [id |-> 1055, name |-> "Clothing and Accessories", tier |-> 1, parent |-> NoParent]>>,
     <<1056, [id |-> 1056, name |-> "Womens Apparel", tier |-> 2, parent |-> 1055]>>,
     <<1057, [id |-> 1057, name |-> "Mens Apparel", tier |-> 2, parent |-> 1055]>>,
     <<1058, [id |-> 1058, name |-> "Childrens Apparel", tier |-> 2, parent |-> 1055]>>,
     <<1060, [id |-> 1060, name |-> "Footwear", tier |-> 2, parent |-> 1055]>>,
     <<1065, [id |-> 1065, name |-> "Jewelry", tier |-> 2, parent |-> 1055]>>,
     <<1070, [id |-> 1070, name |-> "Watches", tier |-> 2, parent |-> 1055]>>,
     <<1075, [id |-> 1075, name |-> "Handbags and Accessories", tier |-> 2, parent |-> 1055]>>,
     <<1080, [id |-> 1080, name |-> "Eyewear", tier |-> 2, parent |-> 1055]>>,
     <<1090, [id |-> 1090, name |-> "Computer Software", tier |-> 1, parent |-> NoParent]>>,
     <<1091, [id |-> 1091, name |-> "Business Software", tier |-> 2, parent |-> 1090]>>,
     <<1092, [id |-> 1092, name |-> "Consumer Software", tier |-> 2, parent |-> 1090]>>,
     <<1093, [id |-> 1093, name |-> "Mobile Apps", tier |-> 2, parent |-> 1090]>>,
     <<1095, [id |-> 1095, name |-> "Video Games", tier |-> 2, parent |-> 1090]>>,
     <<1100, [id |-> 1100, name |-> "Security Software", tier |-> 2, parent |-> 1090]>>,
     <<1105, [id |-> 1105, name |-> "Cloud Services", tier |-> 2, parent |-> 1090]>>,
     <<1115, [id |-> 1115, name |-> "Consumer Electronics", tier |-> 1, parent |-> NoParent]>>,
     <<1116, [id |-> 1116, name |-> "Computers and Laptops", tier |-> 2, parent |-> 1115]>>,
     <<1117, [id |-> 1117, name |-> "Tablets", tier |-> 2, parent |-> 1115]>>,
     <<1118, [id |-> 1118, name |-> "Smartphones", tier |-> 2, parent |-> 1115]>>,
     <<1120, [id |-> 1120, name |-> "Wearables", tier |-> 2, parent |-> 1115]>>,
     <<1121, [id |-> 1121, name |-> "Smartwatches", tier |-> 3, parent |-> 1120]>>,
     <<1122, [id |-> 1122, name |-> "Fitness Trackers", tier |-> 3, parent |-> 1120]>>,
     <<1125, [id |-> 1125, name |-> "Audio Equipment", tier |-> 2, parent |-> 1115]>>,
     <<1126, [id |-> 1126, name |-> "Headphones", tier |-> 3, parent |-> 1125]>>,
     <<1127, [id |-> 1127, name |-> "Speakers", tier |-> 3, parent |-> 1125]>>,
     <<1130, [id |-> 1130, name |-> "TVs and Displays", tier |-> 2, parent |-> 1115]>>,
     <<1135, [id |-> 1135, name |-> "Cameras and Photography", tier |-> 2, parent |-> 1115]>>,
     <<1140, [id |-> 1140, name |-> "Gaming Hardware", tier |-> 2, parent |-> 1115]>>,
     <<1145, [id |-> 1145, name |-> "Smart Home Devices", tier |-> 2, parent |-> 1115]>>,
     <<1150, [id |-> 1150, name |-> "Consumer Packaged Goods", tier |-> 1, parent |-> NoParent]>>,
     <<1151, [id |-> 1151, name |-> "Food and Beverages", tier |-> 2, parent |-> 1150]>>,
     <<1160, [id |-> 1160, name |-> "Personal Care", tier |-> 2, parent |-> 1150]>>,
     <<1170, [id |-> 1170, name |-> "Household Products", tier |-> 2, parent |-> 1150]>>,
     <<1175, [id |-> 1175, name |-> "Beauty and Cosmetics", tier |-> 2, parent |-> 1150]>>,
     <<1180, [id |-> 1180, name |-> "Baby Products", tier |-> 2, parent |-> 1150]>>,
     <<1185, [id |-> 1185, name |-> "Pet Food and Supplies", tier |-> 2, parent |-> 1150]>>,
     <<1210, [id |-> 1210, name |-> "Dating", tier |-> 1, parent |-> NoParent]>>,
     <<1211, [id |-> 1211, name |-> "Dating Services", tier |-> 2, parent |-> 1210]>>,
     <<1220, [id |-> 1220, name |-> "Dieting and Weight Loss", tier |-> 1, parent |-> NoParent]>>,
     <<1221, [id |-> 1221, name |-> "Diet Programs", tier |-> 2, parent |-> 1220]>>,
     <<1225, [id |-> 1225, name |-> "Durable Goods", tier |-> 1, parent |-> NoParent]>>,
     <<1226, [id |-> 1226, name |-> "Appliances", tier |-> 2, parent |-> 1225]>>,
     <<1230, [id |-> 1230, name |-> "Furniture", tier |-> 2, parent |-> 1225]>>,
     <<1240, [id |-> 1240, name |-> "Home Improvement", tier |-> 2, parent |-> 1225]>>,
     <<1260, [id |-> 1260, name |-> "Education and Careers", tier |-> 1, parent |-> NoParent]>>,
     <<1261, [id |-> 1261, name |-> "Colleges and Universities", tier |-> 2, parent |-> 1260]>>,
     <<1262, [id |-> 1262, name |-> "Online Education", tier |-> 2, parent |-> 1260]>>,
     <<1265, [id |-> 1265, name |-> "Job Search", tier |-> 2, parent |-> 1260]>>,
     <<1340, [id |-> 1340, name |-> "Finance and Insurance", tier |-> 1, parent |-> NoParent]>>,
     <<1341, [id |-> 1341, name |-> "Banking", tier |-> 2, parent |-> 1340]>>,
     <<1345, [id |-> 1345, name |-> "Credit Cards", tier |-> 2, parent |-> 1340]>>,
     <<1350, [id |-> 1350, name |-> "Loans", tier |-> 2, parent |-> 1340]>>,
     <<1355, [id |-> 1355, name |-> "Insurance", tier |-> 2, parent |-> 1340]>>,
     <<1365, [id |-> 1365, name |-> "Investments", tier |-> 2, parent |-> 1340]>>,
     <<1370, [id |-> 1370, name |-> "Retirement Planning", tier |-> 2, parent |-> 1340]>>,
     <<1390, [id |-> 1390, name |-> "Fitness Activities", tier |-> 1, parent |-> NoParent]>>,
     <<1391, [id |-> 1391, name |-> "Gyms and Fitness Centers", tier |-> 2, parent |-> 1390]>>,
     <<1395, [id |-> 1395, name |-> "Yoga and Pilates", tier |-> 2, parent |-> 1390]>>,
     <<1410, [id |-> 1410, name |-> "Food and Beverage Services", tier |-> 1, parent |-> NoParent]>>,
     <<1411, [id |-> 1411, name |-> "Restaurants", tier |-> 2, parent |-> 1410]>>,
     <<1420, [id |-> 1420, name |-> "Food Delivery", tier |-> 2, parent |-> 1410]>>,
     <<1430, [id |-> 1430, name |-> "Coffee and Tea", tier |-> 2, parent |-> 1410]>>,
     <<1435, [id |-> 1435, name |-> "Grocery", tier |-> 2, parent |-> 1410]>>,
     <<1440, [id |-> 1440, name |-> "Gambling", tier |-> 1, parent |-> NoParent]>>,
     <<1441, [id |-> 1441, name |-> "Casinos", tier |-> 2, parent |-> 1440]>>,
     <<1443, [id |-> 1443, name |-> "Sports Betting", tier |-> 2, parent |-> 1440]>>,
     <<1480, [id |-> 1480, name |-> "Health and Medical Services", tier |-> 1, parent |-> NoParent]>>,
     <<1481, [id |-> 1481, name |-> "Healthcare Providers", tier |-> 2, parent |-> 1480]>>,
     <<1485, [id |-> 1485, name |-> "Dental Services", tier |-> 2, parent |-> 1480]>>,
     <<1495, [id |-> 1495, name |-> "Mental Health Services", tier |-> 2, parent |-> 1480]>>,
     <<1500, [id |-> 1500, name |-> "Telemedicine", tier |-> 2, parent |-> 1480]>>,
     <<1560, [id |-> 1560, name |-> "Media", tier |-> 1, parent |-> NoParent]>>,
     <<1561, [id |-> 1561, name |-> "Streaming Services", tier |-> 2, parent |-> 1560]>>,
     <<1565, [id |-> 1565, name |-> "News Media", tier |-> 2, parent |-> 1560]>>,
     <<1570, [id |-> 1570, name |-> "Podcasts", tier |-> 2, parent |-> 1560]>>,
     <<1580, [id |-> 1580, name |-> "Movies", tier |-> 2, parent |-> 1560]>>,
     <<1590, [id |-> 1590, name |-> "Music", tier |-> 2, parent |-> 1560]>>,
     <<1600, [id |-> 1600, name |-> "Social Media", tier |-> 2, parent |-> 1560]>>,
     <<1620, [id |-> 1620, name |-> "Non-Fiat Currency", tier |-> 1, parent |-> NoParent]>>,
     <<1621, [id |-> 1621, name |-> "Cryptocurrency", tier |-> 2, parent |-> 1620]>>,
     <<1660, [id |-> 1660, name |-> "Pet Ownership", tier |-> 1, parent |-> NoParent]>>,
     <<1661, [id |-> 1661, name |-> "Pet Supplies", tier |-> 2, parent |-> 1660]>>,
     <<1665, [id |-> 1665, name |-> "Veterinary Services", tier |-> 2, parent |-> 1660]>>,
     <<1680, [id |-> 1680, name |-> "Pharmaceuticals", tier |-> 1, parent |-> NoParent]>>,
     <<1681, [id |-> 1681, name |-> "Prescription Drugs", tier |-> 2, parent |-> 1680]>>,
     <<1682, [id |-> 1682, name |-> "OTC Medications", tier |-> 2, parent |-> 1680]>>,
     <<1685, [id |-> 1685, name |-> "Vitamins and Supplements", tier |-> 2, parent |-> 1680]>>,
     <<1690, [id |-> 1690, name |-> "Pharmacies", tier |-> 2, parent |-> 1680]>>,
     <<1720, [id |-> 1720, name |-> "Real Estate", tier |-> 1, parent |-> NoParent]>>,
     <<1721, [id |-> 1721, name |-> "Residential Real Estate", tier |-> 2, parent |-> 1720]>>,
     <<1725, [id |-> 1725, name |-> "Commercial Real Estate", tier |-> 2, parent |-> 1720]>>,
     <<1750, [id |-> 1750, name |-> "Retail", tier |-> 1, parent |-> NoParent]>>,
     <<1751, [id |-> 1751, name |-> "E-commerce", tier |-> 2, parent |-> 1750]>>,
     <<1752, [id |-> 1752, name |-> "Department Stores", tier |-> 2, parent |-> 1750]>>,
     <<1770, [id |-> 1770, name |-> "Sporting Goods", tier |-> 1, parent |-> NoParent]>>,
     <<1771, [id |-> 1771, name |-> "Fitness Equipment", tier |-> 2, parent |-> 1770]>>,
     <<1772, [id |-> 1772, name |-> "Outdoor Recreation", tier |-> 2, parent |-> 1770]>>,
     <<1780, [id |-> 1780, name |-> "Team Sports Equipment", tier |-> 2, parent |-> 1770]>>,
     <<1795, [id |-> 1795, name |-> "Golf Equipment", tier |-> 2, parent |-> 1770]>>,
     <<1800, [id |-> 1800, name |-> "Tobacco", tier |-> 1, parent |-> NoParent]>>,
     <<1801, [id |-> 1801, name |-> "Cigarettes", tier |-> 2, parent |-> 1800]>>,
     <<1803, [id |-> 1803, name |-> "Vaping", tier |-> 2, parent |-> 1800]>>,
     <<1810, [id |-> 1810, name |-> "Travel and Tourism", tier |-> 1, parent |-> NoParent]>>,
     <<1811, [id |-> 1811, name |-> "Airlines", tier |-> 2, parent |-> 1810]>>,
     <<1812, [id |-> 1812, name |-> "Hotels", tier |-> 2, parent |-> 1810]>>,
     <<1813, [id |-> 1813, name |-> "Vacation Rentals", tier |-> 2, parent |-> 1810]>>,
     <<1815, [id |-> 1815, name |-> "Car Rentals", tier |-> 2, parent |-> 1810]>>,
     <<1820, [id |-> 1820, name |-> "Cruises", tier |-> 2, parent |-> 1810]>>,
     <<1860, [id |-> 1860, name |-> "Vehicles", tier |-> 1, parent |-> NoParent]>>,
     <<1861, [id |-> 1861, name |-> "Automotive", tier |-> 2, parent |-> 1860]>>,
     <<1870, [id |-> 1870, name |-> "Auto Parts", tier |-> 2, parent |-> 1860]>>,
     <<1875, [id |-> 1875, name |-> "Auto Services", tier |-> 2, parent |-> 1860]>>,
     <<1880, [id |-> 1880, name |-> "Motorcycles", tier |-> 2, parent |-> 1860]>>,
     <<1895, [id |-> 1895, name |-> "Bicycles", tier |-> 2, parent |-> 1860]>>,
     <<1900, [id |-> 1900, name |-> "Electric Vehicles", tier |-> 2, parent |-> 1860]>>,
     <<1920, [id |-> 1920, name |-> "Weapons and Ammunition", tier |-> 1, parent |-> NoParent]>>,
     <<1921, [id |-> 1921, name |-> "Firearms", tier |-> 2, parent |-> 1920]>>,
     <<1922, [id |-> 1922, name |-> "Ammunition", tier |-> 2, parent |-> 1920]>> >>

(* The items of the dict KEYWORD_MAPPINGS, in the order of the source:
   keyword or two-word phrase, and category id. *)
KEYWORD_MAPPINGS_ITEMS ==
  << <<"alcohol", 1002>>, <<"alcoholic", 1002>>, <<"liquor", 1002>>, <<"bar", 1003>>,
     <<"pub", 1003>>, <<"nightclub", 1003>>, <<"beer", 1004>>, <<"lager", 1004>>,
     <<"ale", 1004>>, <<"ipa", 1004>>, <<"hard seltzer", 1005>>, <<"seltzer", 1005>>,
     <<"spirits", 1006>>, <<"whiskey", 1006>>, <<"vodka", 1006>>, <<"rum", 1006>>,
     <<"gin", 1006>>, <<"tequila", 1006>>, <<"wine", 1007>>, <<"champagne", 1007>>,
     <<"prosecco", 1007>>, <<"business", 1010>>, <<"b2b", 1010>>, <<"enterprise", 1010>>,
     <<"advertising", 1011>>, <<"marketing", 1011>>, <<"agency", 1011>>,
     <<"construction", 1020>>, <<"contractor", 1020>>, <<"energy", 1025>>,
     <<"manufacturing", 1030>>, <<"logistics", 1040>>, <<"agriculture", 1045>>,
     <<"cannabis", 1050>>, <<"marijuana", 1050>>, <<"cbd", 1051>>, <<"thc", 1052>>,
     <<"clothing", 1055>>, <<"apparel", 1055>>, <<"fashion", 1055>>, <<"shoes", 1060>>,
     <<"footwear", 1060>>, <<"sneakers", 1060>>, <<"boots", 1060>>, <<"jewelry", 1065>>,
     <<"jewellery", 1065>>, <<"necklace", 1065>>, <<"bracelet", 1065>>, <<"watch", 1070>>,
     <<"watches", 1070>>, <<"handbag", 1075>>, <<"purse", 1075>>, <<"sunglasses", 1080>>,
     <<"eyeglasses", 1080>>, <<"software", 1090>>, <<"app", 1090>>, <<"application", 1090>>,
     <<"saas", 1091>>, <<"crm", 1091>>, <<"erp", 1091>>, <<"mobile app", 1093>>,
     <<"video game", 1095>>, <<"game", 1095>>, <<"gaming", 1095>>, <<"playstation", 1095>>,
     <<"xbox", 1095>>, <<"antivirus", 1100>>, <<"vpn", 1100>>, <<"cloud", 1105>>,
     <<"aws", 1105>>, <<"azure", 1105>>, <<"electronics", 1115>>, <<"gadget", 1115>>,
     <<"tech", 1115>>, <<"computer", 1116>>, <<"laptop", 1116>>, <<"pc", 1116>>,
     <<"desktop", 1116>>, <<"macbook", 1116>>, <<"tablet", 1117>>, <<"ipad", 1117>>,
     <<"smartphone", 1118>>, <<"phone", 1118>>, <<"iphone", 1118>>, <<"android", 1118>>,
     <<"mobile", 1118>>, <<"wearable", 1120>>, <<"wearables", 1120>>, <<"smartwatch", 1121>>,
     <<"apple watch", 1121>>, <<"fitness tracker", 1122>>, <<"fitbit", 1122>>,
     <<"headphones", 1126>>, <<"earbuds", 1126>>, <<"airpods", 1126>>, <<"speaker", 1127>>,
     <<"speakers", 1127>>, <<"tv", 1130>>, <<"television", 1130>>, <<"monitor", 1130>>,
     <<"camera", 1135>>, <<"photography", 1135>>, <<"gaming console", 1140>>, <<"ps5", 1140>>,
     <<"smart home", 1145>>, <<"alexa", 1145>>, <<"cpg", 1150>>, <<"fmcg", 1150>>,
     <<"food", 1151>>, <<"beverage", 1151>>, <<"snack", 1151>>, <<"chips", 1151>>,
     <<"candy", 1151>>, <<"personal care", 1160>>, <<"skincare", 1160>>, <<"shampoo", 1160>>,
     <<"cleaning", 1170>>, <<"detergent", 1170>>, <<"makeup", 1175>>, <<"cosmetics", 1175>>,
     <<"lipstick", 1175>>, <<"baby", 1180>>, <<"diaper", 1180>>, <<"pet food", 1185>>,
     <<"dog food", 1185>>, <<"cat food", 1185>>, <<"dating", 1210>>, <<"dating app", 1211>>,
     <<"tinder", 1211>>, <<"bumble", 1211>>, <<"diet", 1220>>, <<"weight loss", 1220>>,
     <<"diet program", 1221>>, <<"appliance", 1226>>, <<"refrigerator", 1226>>,
     <<"oven", 1226>>, <<"furniture", 1230>>, <<"sofa", 1230>>, <<"couch", 1230>>,
     <<"home improvement", 1240>>, <<"tools", 1240>>, <<"education", 1260>>,
     <<"learning", 1260>>, <<"school", 1260>>, <<"college", 1261>>, <<"university", 1261>>,
     <<"online course", 1262>>, <<"coursera", 1262>>, <<"udemy", 1262>>, <<"job", 1265>>,
     <<"career", 1265>>, <<"job search", 1265>>, <<"finance", 1340>>, <<"financial", 1340>>,
     <<"money", 1340>>, <<"bank", 1341>>, <<"banking", 1341>>, <<"credit card", 1345>>,
     <<"visa", 1345>>, <<"mastercard", 1345>>, <<"loan", 1350>>, <<"mortgage", 1350>>,
     <<"insurance", 1355>>, <<"car insurance", 1355>>, <<"life insurance", 1355>>,
     <<"investment", 1365>>, <<"stock", 1365>>, <<"stocks", 1365>>, <<"trading", 1365>>,
     <<"retirement", 1370>>, <<"401k", 1370>>, <<"fitness", 1390>>, <<"workout", 1390>>,
     <<"exercise", 1390>>, <<"gym", 1391>>, <<"fitness center", 1391>>, <<"yoga", 1395>>,
     <<"pilates", 1395>>, <<"restaurant", 1411>>, <<"dining", 1411>>, <<"fast food", 1411>>,
     <<"mcdonalds", 1411>>, <<"food delivery", 1420>>, <<"doordash", 1420>>,
     <<"ubereats", 1420>>, <<"coffee", 1430>>, <<"starbucks", 1430>>, <<"grocery", 1435>>,
     <<"supermarket", 1435>>, <<"gambling", 1440>>, <<"casino", 1441>>, <<"betting", 1443>>,
     <<"sports betting", 1443>>, <<"draftkings", 1443>>, <<"health", 1480>>,
     <<"healthcare", 1480>>, <<"medical", 1480>>, <<"doctor", 1481>>, <<"hospital", 1481>>,
     <<"clinic", 1481>>, <<"dentist", 1485>>, <<"dental", 1485>>, <<"mental health", 1495>>,
     <<"therapy", 1495>>, <<"therapist", 1495>>, <<"telemedicine", 1500>>,
     <<"telehealth", 1500>>, <<"media", 1560>>, <<"entertainment", 1560>>,
     <<"streaming", 1561>>, <<"netflix", 1561>>, <<"hulu", 1561>>, <<"disney+", 1561>>,
     <<"news", 1565>>, <<"journalism", 1565>>, <<"podcast", 1570>>, <<"podcasts", 1570>>,
     <<"movie", 1580>>, <<"movies", 1580>>, <<"film", 1580>>, <<"music", 1590>>,
     <<"album", 1590>>, <<"social media", 1600>>, <<"facebook", 1600>>, <<"instagram", 1600>>,
     <<"twitter", 1600>>, <<"tiktok", 1600>>, <<"crypto", 1621>>, <<"cryptocurrency", 1621>>,
     <<"bitcoin", 1621>>, <<"ethereum", 1621>>, <<"pet", 1660>>, <<"pets", 1660>>,
     <<"pet supplies", 1661>>, <<"pet store", 1661>>, <<"vet", 1665>>,
     <<"veterinarian", 1665>>, <<"pharmaceutical", 1680>>, <<"drug", 1680>>,
     <<"medication", 1680>>, <<"prescription", 1681>>, <<"otc", 1682>>, <<"aspirin", 1682>>,
     <<"vitamin", 1685>>, <<"vitamins", 1685>>, <<"supplement", 1685>>,
     <<"supplements", 1685>>, <<"pharmacy", 1690>>, <<"cvs", 1690>>, <<"walgreens", 1690>>,
     <<"real estate", 1720>>, <<"property", 1720>>, <<"home for sale", 1721>>,
     <<"house", 1721>>, <<"zillow", 1721>>, <<"apartment", 1721>>, <<"rent", 1721>>,
     <<"rental", 1721>>, <<"commercial real estate", 1725>>, <<"retail", 1750>>,
     <<"store", 1750>>, <<"shop", 1750>>, <<"ecommerce", 1751>>, <<"e-commerce", 1751>>,
     <<"amazon", 1751>>, <<"department store", 1752>>, <<"sporting goods", 1770>>,
     <<"sports equipment", 1770>>, <<"fitness equipment", 1771>>, <<"treadmill", 1771>>,
     <<"weights", 1771>>, <<"outdoor", 1772>>, <<"camping", 1772>>, <<"hiking", 1772>>,
     <<"team sports", 1780>>, <<"golf", 1795>>, <<"golf clubs", 1795>>, <<"tobacco", 1800>>,
     <<"cigarette", 1801>>, <<"cigarettes", 1801>>, <<"vape", 1803>>, <<"vaping", 1803>>,
     <<"e-cigarette", 1803>>, <<"juul", 1803>>, <<"travel", 1810>>, <<"vacation", 1810>>,
     <<"trip", 1810>>, <<"tourism", 1810>>, <<"airline", 1811>>, <<"flight", 1811>>,
     <<"flights", 1811>>, <<"hotel", 1812>>, <<"hotels", 1812>>, <<"marriott", 1812>>,
     <<"hilton", 1812>>, <<"vacation rental", 1813>>, <<"airbnb", 1813>>, <<"vrbo", 1813>>,
     <<"car rental", 1815>>, <<"hertz", 1815>>, <<"cruise", 1820>>, <<"cruises", 1820>>,
     <<"vehicle", 1860>>, <<"vehicles", 1860>>, <<"car", 1861>>, <<"cars", 1861>>,
     <<"automobile", 1861>>, <<"auto", 1861>>, <<"auto parts", 1870>>, <<"car parts", 1870>>,
     <<"auto repair", 1875>>, <<"mechanic", 1875>>, <<"motorcycle", 1880>>,
     <<"motorbike", 1880>>, <<"bicycle", 1895>>, <<"bike", 1895>>, <<"electric car", 1900>>,
     <<"ev", 1900>>, <<"tesla", 1900>>, <<"electric vehicle", 1900>>, <<"weapon", 1920>>,
     <<"weapons", 1920>>, <<"gun", 1921>>, <<"firearm", 1921>>, <<"rifle", 1921>>,
     <<"pistol", 1921>>, <<"ammunition", 1922>>, <<"ammo", 1922>> >>

(* the dict whose items are the pairs of the list items *)
DictOf(items) ==
  [k \in { items[i][1] : i \in 1..Len(items) } |->
     items[CHOOSE i \in 1..Len(items) : items[i][1] = k][2]]

(* d.get(k): the value the dict with these items has at k, default when k
   is not a key *)
DictGet(items, k, default) ==
  IF \E i \in 1..Len(items) : items[i][1] = k
    THEN items[CHOOSE i \in 1..Len(items) : items[i][1] = k][2]
    ELSE default

IAB_AD_PRODUCT_TIER1 == DictOf(IAB_AD_PRODUCT_TIER1_ITEMS)

IAB_AD_PRODUCT_TAXONOMY == DictOf(IAB_AD_PRODUCT_TAXONOMY_ITEMS)

KEYWORD_MAPPINGS == DictOf(KEYWORD_MAPPINGS_ITEMS)


(***************************************************************************)
(* Python string primitives used by the code.                              *)
(***************************************************************************)
UPPER == "ABCDEFGHIJKLMNOPQRSTUVWXYZ"

LOWER == "abcdefghijklmnopqrstuvwxyz"

DIGITS == "0123456789"

Chr(s, i) == SubSeq(s, i, i)

CharsOf(s) == { Chr(s, i) : i \in 1..Len(s) }

UpperChars == CharsOf(UPPER)

WordChars == CharsOf(UPPER) \cup CharsOf(LOWER) \cup CharsOf(DIGITS) \cup {"_"}

(* \s of the re module, restricted to the characters a TLA+ string can hold *)
IsSpace(c) == c \in {" ", "\t", "\n", "\r", "\f"}

(* [\x00-\x1F\x7F]: of those, the characters a TLA+ string can hold *)
IsControl(c) == c \in {"\t", "\n", "\r", "\f"}

(* \w of the re module: letters, digits and the underscore *)
IsWordChar(c) == c \in WordChars

LowerChar(c) ==
  IF c \in UpperChars
    THEN Chr(LOWER, CHOOSE i \in 1..Len(UPPER) : Chr(UPPER, i) = c)
    ELSE c

RECURSIVE Concat(_, _, _)
(* G(lo) \o ... \o G(hi), computed by halving the range *)
Concat(G(_), lo, hi) ==
  IF lo > hi THEN ""
  ELSE IF lo = hi THEN G(lo)
  ELSE Concat(G, lo, (lo + hi) \div 2) \o Concat(G, (lo + hi) \div 2 + 1, hi)

(* the string s with every character c replaced by the string F(c) *)
MapChars(F(_), s) == Concat(LAMBDA i : F(Chr(s, i)), 1, Len(s))

(* str.lower() *)
str_lower(s) == MapChars(LowerChar, s)

(* str.strip(): from the first to the last character that is not whitespace *)
str_strip(s) ==
  LET solid == { i \in 1..Len(s) : ~IsSpace(Chr(s, i)) }
  IN  IF solid = {} THEN ""
      ELSE SubSeq(s, CHOOSE i \in solid : \A j \in solid : i <= j,
                     CHOOSE i \in solid : \A j \in solid : j <= i)

(* s[:n] *)
Slice(s, n) == SubSeq(s, 1, IF n < Len(s) THEN n ELSE Len(s))

(* str.split(): the maximal runs of non-whitespace characters, in order *)
str_split(s) ==
  LET solid == { i \in 1..Len(s) : ~IsSpace(Chr(s, i)) }
      starts == { i \in solid : i - 1 \notin solid }
      EndOf(i) == CHOOSE j \in solid :
                    /\ j >= i
                    /\ j + 1 \notin solid
                    /\ \A k \in i..j : k \in solid
      StartNo(n) == CHOOSE i \in starts : Cardinality({ k \in starts : k < i }) = n - 1
  IN  [n \in 1..Cardinality(starts) |-> SubSeq(s, StartNo(n), EndOf(StartNo(n)))]

RECURSIVE str_join(_, _)
(* sep.join(parts) *)
str_join(sep, parts) ==
  IF Len(parts) = 0 THEN ""
  ELSE IF Len(parts) = 1 THEN parts[1]
  ELSE parts[1] \o sep \o str_join(sep, Tail(parts))

(* re.sub(r"[\x00-\x1F\x7F]", "", text) *)
StripControl(c) == IF IsControl(c) THEN "" ELSE c

(* re.sub(r"\s+", " ", text): every run of whitespace becomes one blank *)
CollapseSpace(s) ==
  Concat(LAMBDA i : IF ~IsSpace(Chr(s, i)) THEN Chr(s, i)
                    ELSE IF i > 1 /\ IsSpace(Chr(s, i - 1)) THEN ""
                    ELSE " ",
         1, Len(s))

(* re.sub(r"[^\w\s-]", " ", text) *)
BlankNonWord(c) == IF IsWordChar(c) \/ IsSpace(c) \/ c = "-" THEN c ELSE " "

(* the token list both _extract_keywords and find_best_match start from *)
Tokenize(text) == str_split(MapChars(BlankNonWord, str_lower(text)))


(***************************************************************************)
(* taxonomy.py                                                             *)
(***************************************************************************)
(* Optional[...] results: None is the record Absent *)
Absent == [absent |-> TRUE]

(* f"IAB-AP-{id}" *)
get_iab_code(id) == "IAB-AP-" \o ToString(id)

(* IAB_AD_PRODUCT_TAXONOMY.get(id), for an integer id *)
get_category_by_id(id) == DictGet(IAB_AD_PRODUCT_TAXONOMY_ITEMS, id, Absent)

RECURSIVE PathLoop(_, _)
(* the while loop of get_category_path: current is prepended to path and
   replaced by its parent, until there is none *)
PathLoop(current, path) ==
  IF current = Absent THEN path
  ELSE PathLoop(IF current.parent # NoParent
                  THEN get_category_by_id(current.parent)
                  ELSE Absent,
                <<current>> \o path)

(* a path that holds the category alone *)
PathOfSelf(id) ==
  LET Only(category) == IF category = Absent THEN <<>> ELSE <<category>>
  IN  Only(get_category_by_id(id))

get_category_path(id) == PathLoop(get_category_by_id(id), <<>>)

get_category_label(id) ==
  LET Label(path) == str_join(" > ", [i \in 1..Len(path) |-> path[i].name])
  IN  Label(get_category_path(id))

get_tier1_parent(id) ==
  LET First(path) == IF Len(path) > 0 THEN path[1] ELSE Absent
  IN  First(get_category_path(id))


(***************************************************************************)
(* Python values and control flow.                                         *)
(***************************************************************************)
None == [ty |-> "NoneType"]

PyStr(s) == [ty |-> "str", v |-> s]

PyInt(n) == [ty |-> "int", v |-> n]

PyList(q) == [ty |-> "list", v |-> q]

PyTuple(q) == [ty |-> "tuple", v |-> q]

(* bool(x) *)
Truthy(x) ==
  CASE x.ty = "NoneType" -> FALSE
    [] x.ty = "str" -> x.v # ""
    [] x.ty = "int" -> x.v # 0
    [] x.ty \in {"list", "tuple"} -> Len(x.v) > 0

(* the two ways a Python call ends *)
Return(v) == [kind |-> "return", value |-> v]

Raise(msg) == [kind |-> "raise", exc |-> msg]

Range(q) == { q[i] : i \in 1..Len(q) }

SelectIdx(q, Test(_)) ==
  LET F[i \in 0..Len(q)] ==
        IF i = 0 THEN <<>>
        ELSE IF Test(q[i]) THEN Append(F[i - 1], q[i]) ELSE F[i - 1]
  IN  F[Len(q)]

RECURSIVE InsertDesc(_, _, _)
(* e placed in the descending list q behind every element whose key is
   at least e's *)
InsertDesc(Key(_), q, e) ==
  IF Len(q) = 0 THEN <<e>>
  ELSE IF Key(Head(q)) >= Key(e)
         THEN <<Head(q)>> \o InsertDesc(Key, Tail(q), e)
         ELSE <<e>> \o q

(* sorted(q, key=Key, reverse=True): descending and stable *)
SortedDesc(q, Key(_)) ==
  LET F[i \in 0..Len(q)] ==
        IF i = 0 THEN <<>> ELSE InsertDesc(Key, F[i - 1], q[i])
  IN  F[Len(q)]

(* q[lo:hi] with 0-based lo and exclusive hi, as Python slices a list *)
ListSlice(q, lo, hi) == SubSeq(q, lo + 1, IF hi < Len(q) THEN hi ELSE Len(q))

(***************************************************************************)
(* keyword_mapping.py                                                      *)
(***************************************************************************)
KEYWORD_CONFIDENCE == 95

CONFIDENCE_STEP == 1

CONFIDENCE_CAP == 99

MIN_TOKEN_LEN == 2

Min(a, b) == IF a < b THEN a ELSE b

(* a lookup of the keyword as it is written *)
MapKeywordExact(keyword) ==
  LET Matched(category) ==
        IF category = Absent THEN Absent
        ELSE [id |-> category.id, name |-> category.name,
              tier |-> category.tier, parent |-> category.parent,
              confidence |-> KEYWORD_CONFIDENCE]
      Lookup(category_id) ==
        IF category_id = 0 THEN Absent
        ELSE Matched(get_category_by_id(category_id))
  IN  IF keyword = "" THEN Absent
      ELSE Lookup(DictGet(KEYWORD_MAPPINGS_ITEMS, keyword, 0))

map_keyword_to_category(keyword) ==
  LET Matched(category) ==
        IF category = Absent THEN Absent
        ELSE [id |-> category.id, name |-> category.name,
              tier |-> category.tier, parent |-> category.parent,
              confidence |-> KEYWORD_CONFIDENCE]
      Lookup(category_id) ==
        IF category_id = 0 THEN Absent
        ELSE Matched(get_category_by_id(category_id))
  IN  IF keyword = "" THEN Absent
      ELSE Lookup(DictGet(KEYWORD_MAPPINGS_ITEMS, str_strip(str_lower(keyword)), 0))

(* the index of the entry of category_scores for cat_id, 0 when there is none *)
ScoreIndex(category_scores, cat_id) ==
  IF \E i \in 1..Len(category_scores) : category_scores[i].id = cat_id
    THEN CHOOSE i \in 1..Len(category_scores) : category_scores[i].id = cat_id
    ELSE 0

(* one iteration of the loop over keywords; category_scores is the dict,
   kept as the list of its values in insertion order *)
ScoreKeyword(category_scores, keyword) ==
  LET Put(match, i) ==
        IF i # 0
          THEN [category_scores EXCEPT
                  ![i].match_count = @ + 1,
                  ![i].keywords = Append(@, keyword)]
          ELSE Append(category_scores,
                      [id |-> match.id, name |-> match.name, tier |-> match.tier,
                       parent |-> match.parent, confidence |-> match.confidence,
                       match_count |-> 1, keywords |-> <<keyword>>])
      Score(match) ==
        IF match = Absent THEN category_scores
        ELSE Put(match, ScoreIndex(category_scores, match.id))
  IN  Score(map_keyword_to_category(keyword))

MatchCountOf(cat) == cat.match_count

(* a confidence that grows with the match count without a cap *)
RescoredUncapped(cat) ==
  [cat EXCEPT !.confidence = KEYWORD_CONFIDENCE
                               + (cat.match_count - 1) * CONFIDENCE_STEP]

(* cat["confidence"] = min(0.95 + (cat["match_count"] - 1) * 0.01, 0.99) *)
Rescored(cat) ==
  [cat EXCEPT !.confidence = Min(KEYWORD_CONFIDENCE
                                   + (cat.match_count - 1) * CONFIDENCE_STEP,
                                 CONFIDENCE_CAP)]

(* the scored categories in the order the loop met them, not sorted *)
ScoresUnsorted(keywords) ==
  LET scores[i \in 0..Len(keywords)] ==
        IF i = 0 THEN <<>> ELSE ScoreKeyword(scores[i - 1], keywords[i])
      Results(values) == [i \in 1..Len(values) |-> Rescored(values[i])]
  IN  Results(scores[Len(keywords)])

map_keywords_to_categories(keywords) ==
  LET scores[i \in 0..Len(keywords)] ==
        IF i = 0 THEN <<>> ELSE ScoreKeyword(scores[i - 1], keywords[i])
      Results(values) == [i \in 1..Len(values) |-> Rescored(values[i])]
  IN  SortedDesc(Results(scores[Len(keywords)]), MatchCountOf)

LongToken(w) == Len(w) > MIN_TOKEN_LEN

(* the first element of matches that is a category, Absent if none is *)
FirstPresent(matches) ==
  IF \E i \in 1..Len(matches) : matches[i] # Absent
    THEN matches[CHOOSE i \in 1..Len(matches) :
                   /\ matches[i] # Absent
                   /\ \A j \in 1..(i - 1) : matches[j] = Absent]
    ELSE Absent

(* the match of the first element of q that resolves to a category, Absent
   if none does *)
FirstMatch(q) == FirstPresent([i \in 1..Len(q) |-> map_keyword_to_category(q[i])])

(* a search that tries the two-word phrases before the single words *)
PhraseFirstMatch(text) ==
  LET Phrases(words) ==
        [i \in 1..(Len(words) - 1) |-> words[i] \o " " \o words[i + 1]]
      Pick(single, phrase) == IF phrase # Absent THEN phrase ELSE single
      Search(words) == Pick(FirstMatch(words), FirstMatch(Phrases(words)))
  IN  IF text = "" THEN Absent
      ELSE Search(SelectIdx(Tokenize(text), LongToken))

find_best_match(text) ==
  LET Phrases(words) ==
        [i \in 1..(Len(words) - 1) |-> words[i] \o " " \o words[i + 1]]
      Pick(single, phrase) == IF single # Absent THEN single ELSE phrase
      Search(words) == Pick(FirstMatch(words), FirstMatch(Phrases(words)))
  IN  IF text = "" THEN Absent
      ELSE Search(SelectIdx(Tokenize(text), LongToken))


(***************************************************************************)
(* taxonomy.py: the lookups as their callers reach them, the id being a    *)
(* Python value (an int, a str or None).                                   *)
(***************************************************************************)
(* the value of a decimal digit *)
DigitOf(c) == (CHOOSE i \in 1..Len(DIGITS) : Chr(DIGITS, i) = c) - 1

RECURSIVE DecimalValue(_)
(* the number a string of digits and underscores writes *)
DecimalValue(t) ==
  IF Len(t) = 0 THEN 0
  ELSE IF Chr(t, Len(t)) = "_" THEN DecimalValue(SubSeq(t, 1, Len(t) - 1))
  ELSE DecimalValue(SubSeq(t, 1, Len(t) - 1)) * 10 + DigitOf(Chr(t, Len(t)))

(* the digits of an integer literal: digits, single underscores between them *)
IsDigits(t) ==
  /\ Len(t) > 0
  /\ \A i \in 1..Len(t) : Chr(t, i) \in CharsOf(DIGITS) \cup {"_"}
  /\ Chr(t, 1) # "_" /\ Chr(t, Len(t)) # "_"
  /\ \A i \in 1..(Len(t) - 1) : ~(Chr(t, i) = "_" /\ Chr(t, i + 1) = "_")

(* int(s) for a str: whitespace around the literal and a sign before it are
   accepted; anything else raises ValueError *)
int_of_str(s) ==
  LET Signed(t, sign, digits) ==
        IF IsDigits(digits) THEN Return(sign * DecimalValue(digits))
        ELSE Raise("invalid literal for int() with base 10: '" \o s \o "'")
      Literal(t) ==
        IF Len(t) > 0 /\ Chr(t, 1) = "-" THEN Signed(t, -1, SubSeq(t, 2, Len(t)))
        ELSE IF Len(t) > 0 /\ Chr(t, 1) = "+" THEN Signed(t, 1, SubSeq(t, 2, Len(t)))
        ELSE Signed(t, 1, t)
  IN  Literal(str_strip(s))

(* s.startswith(prefix) *)
str_startswith(s, prefix) ==
  Len(s) >= Len(prefix) /\ SubSeq(s, 1, Len(prefix)) = prefix

RECURSIVE str_remove(_, _)
(* s.replace(old, ""): every occurrence of old taken out, from the left *)
str_remove(s, old) ==
  IF Len(s) < Len(old) THEN s
  ELSE IF SubSeq(s, 1, Len(old)) = old
    THEN str_remove(SubSeq(s, Len(old) + 1, Len(s)), old)
  ELSE Chr(s, 1) \o str_remove(SubSeq(s, 2, Len(s)), old)

CODE_PREFIX == "IAB-AP-"

(* a parser of codes that recognises none *)
IdFromCodeNone(code) == None

(* get_id_from_code(code) for a str: the id as a Python int, None when the
   prefix is missing or int() raises ValueError *)
get_id_from_code(code) ==
  LET Parsed(n) == IF n.kind = "raise" THEN None ELSE PyInt(n.value)
  IN  IF code = "" \/ ~str_startswith(code, CODE_PREFIX) THEN None
      ELSE Parsed(int_of_str(str_remove(code, CODE_PREFIX)))

(* get_category_by_id(id) for a Python value: a str goes through int(),
   whose ValueError is not caught, then the table is read *)
get_category_by_id_of(id) ==
  LET Converted(n) ==
        IF n.kind = "raise" THEN n ELSE Return(get_category_by_id(n.value))
  IN  IF id.ty = "str" THEN Converted(int_of_str(id.v))
      ELSE IF id.ty = "int" THEN Return(get_category_by_id(id.v))
      ELSE Return(Absent)

(* `id in IAB_AD_PRODUCT_TAXONOMY` for a Python value *)
InTaxonomy(id) == id.ty = "int" /\ id.v \in DOMAIN IAB_AD_PRODUCT_TAXONOMY

(* is_valid_category(id) *)
is_valid_category(id) ==
  LET Plain(n) ==
        IF n.kind = "raise" THEN Return(FALSE)
        ELSE Return(InTaxonomy(PyInt(n.value)))
  IN  IF id.ty = "str"
        THEN IF str_startswith(id.v, CODE_PREFIX)
               THEN Return(InTaxonomy(get_id_from_code(id.v)))
               ELSE Plain(int_of_str(id.v))
        ELSE Return(InTaxonomy(id))

(* get_tier1_categories(): the values of IAB_AD_PRODUCT_TAXONOMY whose tier
   is 1, in the order of the dict *)
get_tier1_categories ==
  LET Kept(at) ==
        [k \in 1..Cardinality(at) |->
           IAB_AD_PRODUCT_TAXONOMY_ITEMS[
             CHOOSE i \in at : Cardinality({j \in at : j <= i}) = k][2]]
  IN  Kept({i \in 1..Len(IAB_AD_PRODUCT_TAXONOMY_ITEMS) :
              IAB_AD_PRODUCT_TAXONOMY_ITEMS[i][2].tier = 1})

(***************************************************************************)
(* cache.py                                                                *)
(***************************************************************************)
CACHE_KEY_TITLE_LEN == 100

CACHE_KEY_DESCRIPTION_LEN == 200

(* create_cache_key: the md5 digest of the JSON text of the normalised
   triple.  The model keeps what is digested, the triple itself, and takes
   md5 to be free of collisions. *)
create_cache_key(input_data) ==
  [title |-> Slice(str_strip(str_lower(input_data.title)), CACHE_KEY_TITLE_LEN),
   description |-> Slice(str_strip(str_lower(input_data.description)),
                         CACHE_KEY_DESCRIPTION_LEN),
   category |-> str_strip(str_lower(input_data.category))]

(* CacheManager._make_key *)
_make_key(key) == <<"mixpeek_iab_ap_", key>>

(* CacheManager.__init__: _cache is the TTLCache, kept as the list of its
   items, oldest first; maxsize (10000) is out of reach of MaxCalls sets *)
CacheManager == [enabled |-> TRUE, _cache |-> <<>>,
                 _stats |-> [hits |-> 0, misses |-> 0, sets |-> 0]]

CacheIndex(items, k) ==
  IF \E i \in 1..Len(items) : items[i].key = k
    THEN CHOOSE i \in 1..Len(items) : items[i].key = k
    ELSE 0

(* CacheManager.get: the manager after the call and the value returned *)
CacheGet(cm, key) ==
  LET i == CacheIndex(cm._cache, _make_key(key))
  IN  IF ~cm.enabled \/ i = 0
        THEN [cm |-> [cm EXCEPT !._stats.misses = @ + 1], value |-> Absent]
        ELSE [cm |-> [cm EXCEPT !._stats.hits = @ + 1], value |-> cm._cache[i].value]

(* a set that stores nothing *)
CacheSetDropped(cm, key, value) == cm

(* CacheManager.set: a key already present is stored anew, as the youngest item *)
CacheSet(cm, key, value) ==
  LET k == _make_key(key)
      others == SelectIdx(cm._cache, LAMBDA it : it.key # k)
  IN  IF ~cm.enabled THEN cm
      ELSE [cm EXCEPT !._cache = Append(others, [key |-> k, value |-> value]),
                      !._stats.sets = @ + 1]

(***************************************************************************)
(* mapper.py                                                               *)
(***************************************************************************)
CONFIDENCE_HIGH == 90

TITLE_MAX_LENGTH == 500

DESCRIPTION_MAX_LENGTH == 2000

MAX_KEYWORDS == 20

MAX_SECONDARY == 3

INPUT_DESCRIPTION_LEN == 100

MERGE_BOOST == 10

DEFAULT_MIN_CONFIDENCE == 30

IAB_VERSION == "2.0"

(* the messages of the failures map_product tells apart *)
MISSING_INPUT == "At least title or description is required"

CLIENT_UNAVAILABLE ==
  "API client not initialized. API key required for semantic mapping."

NO_MATCH == "No matching category found"

STOP_WORDS ==
  {"a", "an", "the", "and", "or", "but", "in", "on", "at", "to", "for",
   "of", "with", "by", "from", "as", "is", "was", "are", "were", "been",
   "be", "have", "has", "had", "do", "does", "did", "will", "would",
   "this", "that", "these", "those", "it", "its", "they", "them",
   "what", "which", "who", "where", "when", "why", "how", "all",
   "each", "every", "both", "few", "more", "most", "other", "some",
   "no", "not", "only", "own", "same", "so", "than", "too", "very"}

(* ProductMapper.__init__: self.stats *)
InitialStats ==
  [requests |-> 0, cache_hits |-> 0, deterministic_matches |-> 0,
   semantic_matches |-> 0, no_matches |-> 0, errors |-> 0, total_latency_ms |-> 0]

(* an increment that is lost *)
BumpLost(stats, counter) == stats

(* self.stats[counter] += 1 *)
Bump(stats, counter) == [stats EXCEPT ![counter] = @ + 1]

(* The helpers of map_product bump counters of self.stats as they run.  Each
   helper below returns, next to how it ended, the list of the counters it
   bumped (bumps), and map_product applies the list to self.stats. *)
BumpAll(stats, bumps) ==
  LET F[i \in 0..Len(bumps)] ==
        IF i = 0 THEN stats ELSE Bump(F[i - 1], bumps[i])
  IN  F[Len(bumps)]

_sanitize(text, max_length) ==
  IF ~Truthy(text) THEN Return("")
  ELSE IF text.ty # "str" THEN Raise("expected string or bytes-like object")
  ELSE Return(Slice(str_strip(CollapseSpace(MapChars(StripControl, text.v))),
                    max_length))

(* (field or "").strip() *)
StripField(field) ==
  IF ~Truthy(field) THEN Return("")
  ELSE IF field.ty # "str" THEN Raise("object has no attribute 'strip'")
  ELSE Return(str_strip(field.v))

KeepWord(w) == Len(w) > MIN_TOKEN_LEN /\ w \notin STOP_WORDS

(* freq[word] = freq.get(word, 0) + 1, freq being the list of the dict's
   items in insertion order *)
CountWord(freq, word) ==
  IF \E i \in 1..Len(freq) : freq[i].word = word
    THEN [freq EXCEPT ![CHOOSE i \in 1..Len(freq) : freq[i].word = word].count = @ + 1]
    ELSE Append(freq, [word |-> word, count |-> 1])

CountOf(item) == item.count

_extract_keywords(text) ==
  LET Counted(words) ==
        LET freq[i \in 0..Len(words)] ==
              IF i = 0 THEN <<>> ELSE CountWord(freq[i - 1], words[i])
        IN  freq[Len(words)]
      Words(sorted_words) == [i \in 1..Len(sorted_words) |-> sorted_words[i].word]
  IN  IF text = "" THEN <<>>
      ELSE Words(ListSlice(SortedDesc(Counted(SelectIdx(Tokenize(text), KeepWord)),
                                      CountOf),
                           0, MAX_KEYWORDS))

(* all_text of _map_deterministic *)
AllText(product) ==
  str_join(" ", <<product.title, product.description, product.category, product.brand>>)

(* a deterministic step that also searches the text when the confidence
   filter leaves no keyword match *)
DeterministicSearchesAfterFilter(product, min_confidence, all_keywords) ==
  LET Fallback(direct_match) ==
        IF direct_match # Absent /\ direct_match.confidence >= min_confidence
          THEN [outcome |-> Return([source |-> "deterministic",
                                    categories |-> <<direct_match>>]),
                bumps |-> <<"deterministic_matches">>, direct |-> TRUE]
          ELSE [outcome |-> Return([source |-> "deterministic", categories |-> <<>>]),
                bumps |-> <<"no_matches">>, direct |-> TRUE]
      Matched(kept) ==
        IF Len(kept) > 0
          THEN [outcome |-> Return([source |-> "deterministic", categories |-> kept]),
                bumps |-> <<"deterministic_matches">>, direct |-> FALSE]
          ELSE Fallback(find_best_match(AllText(product)))
  IN  IF product.keywords.ty # "list"
        THEN [outcome |-> Raise("can only concatenate tuple (not \"list\") to tuple"),
              bumps |-> <<>>, direct |-> FALSE]
        ELSE Matched(SelectIdx(map_keywords_to_categories(all_keywords),
                               LAMBDA c : c.confidence >= min_confidence))

(* _map_deterministic.  all_keywords is list(set(...)): a listing of the
   keywords given and extracted in the order the interpreter's string
   hashing gives, which the caller of this operator chooses.  direct tells
   whether find_best_match was called. *)
_map_deterministic(product, min_confidence, all_keywords) ==
  LET Fallback(direct_match) ==
        IF direct_match # Absent /\ direct_match.confidence >= min_confidence
          THEN [outcome |-> Return([source |-> "deterministic",
                                    categories |-> <<direct_match>>]),
                bumps |-> <<"deterministic_matches">>, direct |-> TRUE]
          ELSE [outcome |-> Return([source |-> "deterministic", categories |-> <<>>]),
                bumps |-> <<"no_matches">>, direct |-> TRUE]
      Matched(matches) ==
        IF Len(matches) > 0
          THEN [outcome |-> Return([source |-> "deterministic",
                                    categories |-> SelectIdx(matches,
                                       LAMBDA c : c.confidence >= min_confidence)]),
                bumps |-> <<"deterministic_matches">>, direct |-> FALSE]
          ELSE Fallback(find_best_match(AllText(product)))
  IN  IF product.keywords.ty # "list"
        THEN [outcome |-> Raise("can only concatenate tuple (not \"list\") to tuple"),
              bumps |-> <<>>, direct |-> FALSE]
        ELSE Matched(map_keywords_to_categories(all_keywords))

(* _map_semantic.  client tells whether self.client is set; reply is how
   self.client.classify_product(product) ends; calls counts the invocations
   of classify_product. *)
_map_semantic(client, reply, product, min_confidence) ==
  IF ~client
    THEN [outcome |-> Raise(CLIENT_UNAVAILABLE),
          bumps |-> <<>>, calls |-> 0]
  ELSE IF reply.kind = "raise"
    THEN [outcome |-> reply, bumps |-> <<>>, calls |-> 1]
  ELSE
    LET api_result == reply.value
    IN  IF api_result.success /\ "categories" \in DOMAIN api_result
            /\ Len(api_result.categories) > 0
          THEN [outcome |-> Return([source |-> "semantic",
                                    categories |-> SelectIdx(api_result.categories,
                                       LAMBDA c : c.confidence >= min_confidence)]),
                bumps |-> <<"semantic_matches">>, calls |-> 1]
          ELSE [outcome |-> Return([source |-> "semantic", categories |-> <<>>,
                                    error |-> IF "error" \in DOMAIN api_result
                                                THEN PyStr(api_result.error) ELSE None]),
                bumps |-> <<"no_matches">>, calls |-> 1]

(* by_id[cat["id"]] = {**cat, "sources": [source]}: a new id is added last,
   a known id keeps its place *)
MergePut(by_id, cat, source) ==
  LET i == ScoreIndex(by_id, cat.id)
      entry == [k \in DOMAIN cat \cup {"sources"} |->
                 IF k = "sources" THEN <<source>> ELSE cat[k]]
  IN  IF i = 0 THEN Append(by_id, entry) ELSE [by_id EXCEPT ![i] = entry]

(* one iteration of the loop over the semantic categories *)
MergeSemantic(by_id, cat) ==
  LET i == ScoreIndex(by_id, cat.id)
  IN  IF i # 0
        THEN [by_id EXCEPT ![i].confidence = Min(CONFIDENCE_CAP, @ + MERGE_BOOST),
                           ![i].sources = Append(@, "semantic")]
        ELSE MergePut(by_id, cat, "semantic")

ConfidenceOf(cat) == cat.confidence

_merge_results(deterministic, semantic) ==
  LET D[i \in 0..Len(deterministic)] ==
        IF i = 0 THEN <<>> ELSE MergePut(D[i - 1], deterministic[i], "deterministic")
      S[i \in 0..Len(semantic)] ==
        IF i = 0 THEN D[Len(deterministic)] ELSE MergeSemantic(S[i - 1], semantic[i])
  IN  SortedDesc(S[Len(semantic)], ConfidenceOf)

(* a hybrid step that asks the classifier whatever the deterministic step found *)
HybridAlwaysSemantic(client, reply, product, min_confidence, all_keywords) ==
  LET Both(det, sem) ==
        [outcome |-> sem.outcome, bumps |-> det.bumps \o sem.bumps,
         calls |-> sem.calls, det |-> det.outcome]
  IN  Both(_map_deterministic(product, min_confidence, all_keywords),
           _map_semantic(client, reply, product, min_confidence))

(* _map_hybrid.  det is how its call of _map_deterministic ended, sem how
   its call of _map_semantic ends when it makes it. *)
_map_hybrid(client, reply, product, min_confidence, all_keywords) ==
  LET Hybrid(det, sem) ==
        IF det.outcome.kind = "raise"
          THEN [outcome |-> det.outcome, bumps |-> det.bumps, calls |-> 0,
                det |-> det.outcome]
        ELSE IF /\ Len(det.outcome.value.categories) > 0
                /\ \E i \in 1..Len(det.outcome.value.categories) :
                     det.outcome.value.categories[i].confidence >= CONFIDENCE_HIGH
          THEN [outcome |-> Return(det.outcome.value), bumps |-> det.bumps,
                calls |-> 0, det |-> det.outcome]
        ELSE IF client
          THEN IF sem.outcome.kind = "raise"
                 THEN [outcome |-> sem.outcome, bumps |-> det.bumps \o sem.bumps,
                       calls |-> sem.calls, det |-> det.outcome]
               ELSE IF Len(sem.outcome.value.categories) > 0
                 THEN [outcome |-> Return([source |-> "hybrid",
                                           categories |-> _merge_results(
                                              det.outcome.value.categories,
                                              sem.outcome.value.categories)]),
                       bumps |-> det.bumps \o sem.bumps, calls |-> sem.calls,
                       det |-> det.outcome]
               ELSE [outcome |-> Return([source |-> "hybrid",
                                         categories |-> det.outcome.value.categories]),
                     bumps |-> det.bumps \o sem.bumps, calls |-> sem.calls,
                     det |-> det.outcome]
        ELSE [outcome |-> Return([source |-> "hybrid",
                                  categories |-> det.outcome.value.categories]),
              bumps |-> det.bumps, calls |-> 0, det |-> det.outcome]
  IN  Hybrid(_map_deterministic(product, min_confidence, all_keywords),
             _map_semantic(client, reply, product, min_confidence))

EmptyDict == [k \in {} |-> TRUE]

(* {**g, **f}: the keys of both dicts, f's value where both have the key *)
Update(f, g) ==
  [k \in DOMAIN f \cup DOMAIN g |-> IF k \in DOMAIN f THEN f[k] ELSE g[k]]

(* the "input" entry of an envelope *)
InputEcho(product) ==
  [title |-> product.title,
   description |-> IF product.description # ""
                     THEN PyStr(Slice(product.description, INPUT_DESCRIPTION_LEN))
                     ELSE None]

(* the keys _format_result adds to iab_product for the tier-1 parent *)
Tier1Keys(primary, tier1) ==
  IF tier1 # Absent /\ tier1.id # primary.id
    THEN [tier1 |-> get_iab_code(tier1.id), tier1_id |-> tier1.id,
          tier1_label |-> tier1.name]
    ELSE EmptyDict

(* one entry of "secondary" *)
SecondaryEntry(cat) ==
  [code |-> get_iab_code(cat.id), id |-> cat.id,
   label |-> get_category_label(cat.id), confidence |-> cat.confidence]

(* a "secondary" key that lists every category behind the first *)
SecondaryUncapped(include_secondary, categories) ==
  IF include_secondary /\ Len(categories) > 1
    THEN [secondary |->
            LET Entries(rest) == [i \in 1..Len(rest) |-> SecondaryEntry(rest[i])]
            IN  Entries(Tail(categories))]
    ELSE EmptyDict

(* the "secondary" key, for result["categories"][1:4] *)
SecondaryKey(include_secondary, categories) ==
  IF include_secondary /\ Len(categories) > 1
    THEN [secondary |->
            LET Entries(rest) == [i \in 1..Len(rest) |-> SecondaryEntry(rest[i])]
            IN  Entries(ListSlice(categories, 1, 1 + MAX_SECONDARY))]
    ELSE EmptyDict

(* the "explanation" key *)
ExplanationKey(source, primary) ==
  IF source = "deterministic" /\ "keywords" \in DOMAIN primary
       /\ Len(primary.keywords) > 0
    THEN [explanation |-> "Matched keywords: " \o str_join(", ", primary.keywords)]
  ELSE IF source = "semantic"
    THEN [explanation |-> "Semantic classification based on product content"]
  ELSE IF source = "hybrid"
    THEN [explanation |-> "Combined deterministic and semantic classification"]
  ELSE EmptyDict

_format_result(result, product, include_secondary) ==
  LET Formatted(primary) ==
        [success |-> TRUE,
         iab_product |->
           Update(ExplanationKey(result.source, primary),
             Update(SecondaryKey(include_secondary, result.categories),
               Update(Tier1Keys(primary, get_tier1_parent(primary.id)),
                      [primary |-> get_iab_code(primary.id),
                       primary_id |-> primary.id,
                       label |-> get_category_label(primary.id),
                       confidence |-> primary.confidence,
                       version |-> IAB_VERSION]))),
         source |-> result.source, input |-> InputEcho(product)]
  IN  IF Len(result.categories) = 0
        THEN [success |-> FALSE, error |-> NO_MATCH,
              source |-> result.source, input |-> InputEcho(product)]
        ELSE Formatted(result.categories[1])

(* a dispatch that takes the semantic branch in every mode *)
DispatchAlwaysSemantic(client, reply, product, use_mode, use_confidence, all_keywords) ==
  LET Semantic(s) ==
        [outcome |-> s.outcome, bumps |-> s.bumps, calls |-> s.calls, det |-> Absent]
  IN  Semantic(_map_semantic(client, reply, product, use_confidence))

(* the mode dispatch in the try block of map_product; det is how
   _map_deterministic ended, Absent when it did not run *)
Dispatch(client, reply, product, use_mode, use_confidence, all_keywords) ==
  LET Deterministic(d) ==
        [outcome |-> d.outcome, bumps |-> d.bumps, calls |-> 0, det |-> d.outcome]
      Semantic(s) ==
        [outcome |-> s.outcome, bumps |-> s.bumps, calls |-> s.calls, det |-> Absent]
  IN  IF use_mode = "deterministic"
        THEN Deterministic(_map_deterministic(product, use_confidence, all_keywords))
      ELSE IF use_mode = "semantic"
        THEN Semantic(_map_semantic(client, reply, product, use_confidence))
      ELSE _map_hybrid(client, reply, product, use_confidence, all_keywords)

(* "Build product dict": the four fields as _sanitize and strip return or
   raise them, and the keywords *)
ProductFields(a) ==
  [title |-> _sanitize(a.title, TITLE_MAX_LENGTH),
   description |-> _sanitize(a.description, DESCRIPTION_MAX_LENGTH),
   category |-> StripField(a.category),
   brand |-> StripField(a.brand),
   keywords |-> IF Truthy(a.keywords) THEN a.keywords ELSE PyList(<<>>)]

(* the first of the four field conversions that raises, the last one's
   outcome when none does *)
BuildFault(fields) ==
  IF fields.title.kind = "raise" THEN fields.title
  ELSE IF fields.description.kind = "raise" THEN fields.description
  ELSE IF fields.category.kind = "raise" THEN fields.category
  ELSE fields.brand

(* the product dict, when no conversion raised *)
ProductOf(fields) ==
  [title |-> fields.title.value, description |-> fields.description.value,
   category |-> fields.category.value, brand |-> fields.brand.value,
   keywords |-> fields.keywords]

(* What map_product computes from its arguments, the mapper's configuration
   and the environment alone, that is all but the counters and the cache:
   the product dict (built: the exception if building it raises), the cache
   key, the result m of the mode dispatch and the formatted envelope. *)
Mapping(client, mapping_mode, min_confidence, a, all_keywords, reply) ==
  LET Mapped(built, product, m) ==
        IF m.outcome.kind = "raise"
          THEN [built |-> built, product |-> product,
                cache_key |-> create_cache_key(product), m |-> m]
          ELSE [built |-> built, product |-> product,
                cache_key |-> create_cache_key(product), m |-> m,
                formatted |-> _format_result(m.outcome.value, product,
                                             a.include_secondary)]
      Dispatched(built, product) ==
        Mapped(built, product,
               Dispatch(client, reply, product,
                        IF Truthy(a.mode) THEN a.mode.v ELSE mapping_mode,
                        IF a.min_confidence # None THEN a.min_confidence.v
                        ELSE min_confidence,
                        all_keywords))
      Built(fields, built) ==
        IF built.kind = "raise" THEN [built |-> built]
        ELSE Dispatched(built, ProductOf(fields))
      Fields(fields) == Built(fields, BuildFault(fields))
  IN  Fields(ProductFields(a))

(***************************************************************************)
(* The calls made on a mapper and the environment of a call.               *)
(***************************************************************************)
(* the keyword arguments of one map_product call *)
Call(title, description, category, keywords, mode, min_confidence, include_secondary) ==
  [title |-> title, description |-> description, category |-> category,
   brand |-> None, keywords |-> keywords, mode |-> mode,
   min_confidence |-> min_confidence, include_secondary |-> include_secondary]

(* title, description, category and keywords of the products mapped *)
AppleWatch ==
  <<PyStr("Apple Watch Series 9"), PyStr("GPS smartwatch with heart rate monitor"),
    None, None>>

SmartHomeHub == <<PyStr("Smart Home Hub"), None, None, None>>

Unknown == <<PyStr("Quantum flux"), PyStr(""), None, None>>

Blank == <<PyStr("   "), None, PyStr("smartphone"), None>>

Empty == <<PyStr(""), None, PyStr("smartphone"), PyList(<<"phone">>)>>

BadCategory == <<PyStr("Test smartphone"), None, PyInt(5), None>>

BadTitle == <<PyInt(123), None, None, None>>

BadKeywords == <<PyStr("Test smartphone"), None, None, PyTuple(<<"phone">>)>>

(* the calls of the model: each product in the mapper's own mode (mode is
   None), the well-formed ones in the deterministic and the semantic mode
   too, and the Apple Watch with a min_confidence above every keyword
   match's and without secondary categories *)
Requests ==
  { Call(p[1], p[2], p[3], p[4], None, None, TRUE) :
      p \in {AppleWatch, SmartHomeHub, Unknown, Blank, Empty, BadCategory,
             BadTitle, BadKeywords} }
  \cup { Call(p[1], p[2], p[3], p[4], PyStr(mode), None, TRUE) :
           p \in {AppleWatch, SmartHomeHub, Unknown},
           mode \in {"deterministic", "semantic"} }
  \cup { Call(AppleWatch[1], AppleWatch[2], None, None, mode, PyInt(97), TRUE) :
           mode \in {None, PyStr("deterministic")} }
  \cup { Call(AppleWatch[1], AppleWatch[2], None, None, PyStr("deterministic"),
              None, FALSE) }

(* the ways self.client.classify_product(...) ends: it raises, or returns
   the classifier's answer *)
NoReply == Raise("no classifier")

Replies ==
  { Raise("classifier unavailable"),
    Return([success |-> FALSE, error |-> "Request timeout"]),
    Return([success |-> TRUE, categories |-> <<>>]),
    Return([success |-> TRUE,
            categories |-> <<[id |-> 1121, name |-> "Smartwatches",
                              confidence |-> 80]>>]),
    Return([success |-> TRUE,
            categories |-> <<[id |-> 9999, name |-> "Widgets",
                              confidence |-> 80]>>]),
    Return([success |-> TRUE,
            categories |-> <<[id |-> 1118, name |-> "Smartphones",
                              confidence |-> 75],
                             [id |-> 1118, name |-> "Smartphones",
                              confidence |-> 75]>>]) }

(* the lists that arrange the elements of q in every order *)
Perms(q) ==
  { [i \in 1..Len(q) |-> q[f[i]]] :
      f \in { g \in [1..Len(q) -> 1..Len(q)] :
                \A i, j \in 1..Len(q) : g[i] = g[j] => i = j } }

(* q without the repetitions of its elements *)
Distinct(q) ==
  LET F[i \in 0..Len(q)] ==
        IF i = 0 THEN <<>>
        ELSE IF q[i] \in Range(F[i - 1]) THEN F[i - 1] ELSE Append(F[i - 1], q[i])
  IN  F[Len(q)]

(* The values list(set(product["keywords"] + extracted)) can take.  The
   order of a set of strings depends on the interpreter's hash seed.  The
   keywords that resolve to a category come in every order; those that do
   not are skipped by the loop of map_keywords_to_categories wherever they
   stand, and are listed behind the others. *)
KeywordOrders(a) ==
  LET Resolves(k) == map_keyword_to_category(k) # Absent
      Skipped(k) == ~Resolves(k)
      Orders(all) ==
        { p \o SelectIdx(all, Skipped) : p \in Perms(SelectIdx(all, Resolves)) }
      Keywords(product) ==
        Orders(Distinct(product.keywords.v \o _extract_keywords(AllText(product))))
      Fields(fields) ==
        IF BuildFault(fields).kind = "raise" \/ fields.keywords.ty # "list"
          THEN {<<>>}
          ELSE Keywords(ProductOf(fields))
  IN  Fields(ProductFields(a))

(* the environments of a call on a mapper with or without a client: the
   order of the keyword set, the way the classifier answers (NoReply when
   there is no classifier to ask), and the clock's readings, in
   milliseconds since start_time, when the latency is added to the stats
   and when the envelope is built *)
Envs(client, a) ==
  { e \in [all_keywords : KeywordOrders(a),
           reply : IF client THEN Replies ELSE {NoReply},
           t_stats : 0..MaxLatency, t_return : 0..MaxLatency] :
      e.t_stats <= e.t_return }

(* ProductMapper.__init__: mapping_mode, by default *)
DEFAULT_MAPPING_MODE == "hybrid"

(* Mapping, tabulated over the configurations, calls and environments of
   the model *)
MappingKeys ==
  UNION { { <<client, DEFAULT_MAPPING_MODE, DEFAULT_MIN_CONFIDENCE, a,
              e.all_keywords, e.reply>> : e \in Envs(client, a) } :
          client \in BOOLEAN, a \in Requests }

MappingTable ==
  [k \in MappingKeys |-> Mapping(k[1], k[2], k[3], k[4], k[5], k[6])]

(* a store that does not look at the envelope's success *)
StoreAlways(cache, cache_key, formatted) ==
  IF cache # None THEN CacheSet(cache, cache_key, formatted) ELSE cache

(* "Cache result": the cache after the formatted envelope is stored, which
   happens for a success only *)
StoreResult(cache, cache_key, formatted) ==
  IF cache # None /\ formatted.success
    THEN CacheSet(cache, cache_key, formatted)
    ELSE cache

(* ProductMapper.map_product with the arguments a on the mapper self = [client, mapping_mode,
   min_confidence, cache, stats], cache being None or the CacheManager.
   The result holds the mapper's stats and cache after the call, how the
   call ended (outcome: the envelope returned or the exception raised), the
   number of invocations of classify_product (calls), whether the cache
   answered (hit) and how _map_deterministic ended (det). *)
map_product(self, a, env) ==
  LET Served(requested, w, probe, cache_1) ==
        IF ~Truthy(a.title) /\ ~Truthy(a.description)
          THEN [stats |-> Bump(requested, "errors"), cache |-> self.cache,
                outcome |-> Return([success |-> FALSE, error |-> MISSING_INPUT]),
                calls |-> 0, hit |-> FALSE, det |-> Absent]
        ELSE IF w.built.kind = "raise"
          THEN [stats |-> requested, cache |-> self.cache, outcome |-> w.built,
                calls |-> 0, hit |-> FALSE, det |-> Absent]
        ELSE IF self.cache # None /\ probe.value # Absent
          THEN [stats |-> Bump(requested, "cache_hits"), cache |-> cache_1,
                outcome |-> Return(Update([cached |-> TRUE,
                                           latency_ms |-> env.t_return],
                                          probe.value)),
                calls |-> 0, hit |-> TRUE, det |-> Absent]
        ELSE IF w.m.outcome.kind = "raise"
          THEN [stats |-> Bump(BumpAll(requested, w.m.bumps), "errors"),
                cache |-> cache_1,
                outcome |-> Return([success |-> FALSE, error |-> w.m.outcome.exc,
                                    latency_ms |-> env.t_return]),
                calls |-> w.m.calls, hit |-> FALSE, det |-> w.m.det]
        ELSE [stats |-> [BumpAll(requested, w.m.bumps) EXCEPT
                           !.total_latency_ms = @ + env.t_stats],
              cache |-> StoreResult(cache_1, w.cache_key, w.formatted),
              outcome |-> Return(Update([cached |-> FALSE,
                                         latency_ms |-> env.t_return],
                                        w.formatted)),
              calls |-> w.m.calls, hit |-> FALSE, det |-> w.m.det]
      Probed(requested, w, probe) ==
        Served(requested, w, probe, IF self.cache # None THEN probe.cm ELSE None)
      Mapped(requested, w) ==
        Probed(requested, w, CacheGet(self.cache, w.cache_key))
  IN  Mapped(Bump(self.stats, "requests"),
             MappingTable[<<self.client, self.mapping_mode, self.min_confidence,
                            a, env.all_keywords, env.reply>>])

(***************************************************************************)
(* The state machine: one mapper and the operations made on it.            *)
(***************************************************************************)
VARIABLES
  self,    \* the ProductMapper: client, mapping_mode, min_confidence, cache, stats
  ncalls,  \* the number of map_product calls made so far
  last     \* the last operation; of a map_product call its arguments, how it
           \* ended, and (before) the cache, the stats and the last operation
           \* as they were when it started

vars == <<self, ncalls, last>>

(* ProductMapper.__init__(api_key, enable_cache), the other arguments left
   to their defaults: the client is created when an api_key is given *)
ProductMapper(client, enable_cache) ==
  [client |-> client, mapping_mode |-> DEFAULT_MAPPING_MODE,
   min_confidence |-> DEFAULT_MIN_CONFIDENCE,
   cache |-> IF enable_cache THEN CacheManager ELSE None,
   stats |-> InitialStats]

Init ==
  /\ \E client \in BOOLEAN, enable_cache \in BOOLEAN :
       self = ProductMapper(client, enable_cache)
  /\ ncalls = 0
  /\ last = [op |-> "__init__"]

(* last without what it records of the operation before it *)
Forget(l) == [k \in DOMAIN l \ {"before"} |-> l[k]]

(* a caller runs map_product with the arguments a to its end *)
MapProduct ==
  /\ ncalls < MaxCalls
  /\ \E a \in Requests : \E env \in Envs(self.client, a) :
       \E r \in {map_product(self, a, env)} :
           /\ self' = [self EXCEPT !.stats = r.stats, !.cache = r.cache]
           /\ last' = [op |-> "map_product", args |-> a,
                       use_mode |-> IF Truthy(a.mode) THEN a.mode.v
                                    ELSE self.mapping_mode,
                       outcome |-> r.outcome, calls |-> r.calls,
                       hit |-> r.hit, det |-> r.det,
                       before |-> [cache |-> self.cache, stats |-> self.stats,
                                   last |-> Forget(last)]]
  /\ ncalls' = ncalls + 1

(* ProductMapper.clear_cache *)
ClearCache ==
  /\ self' = [self EXCEPT !.cache = IF @ # None THEN [@ EXCEPT !._cache = <<>>]
                                    ELSE @]
  /\ last' = [op |-> "clear_cache"]
  /\ UNCHANGED ncalls

(* the TTLCache drops its oldest item, whose time to live is over *)
Expire ==
  /\ self.cache # None
  /\ Len(self.cache._cache) > 0
  /\ self' = [self EXCEPT !.cache._cache = Tail(@)]
  /\ last' = [op |-> "expire"]
  /\ UNCHANGED ncalls

(* ProductMapper.reset_stats *)
ResetStats ==
  /\ self' = [self EXCEPT
                !.stats = InitialStats,
                !.cache = IF @ # None
                            THEN [@ EXCEPT !._stats = [hits |-> 0, misses |-> 0,
                                                       sets |-> 0]]
                            ELSE @]
  /\ last' = [op |-> "reset_stats"]
  /\ UNCHANGED ncalls

Next == MapProduct \/ ClearCache \/ Expire \/ ResetStats

Spec == Init /\ [][Next]_vars


(***************************************************************************)
(* The module's functions called on their own.  A second specification:    *)
(* each step calls one function of taxonomy.py, keyword_mapping.py or      *)
(* ProductMapper's helpers on an input from a bounded set and records the  *)
(* arguments and the result in last.  The calls do not depend on one        *)
(* another, so a behaviour makes one; the mapper is not touched.           *)
(***************************************************************************)
MaxListLen == 2

(* the lists of at most n elements of pool *)
Lists(pool, n) == UNION { [1..k -> pool] : k \in 0..n }

(* an element of the categories list of _map_deterministic, as
   map_keywords_to_categories builds it *)
DeterministicCategory(id, confidence) ==
  LET Entry(category) ==
        [id |-> category.id, name |-> category.name, tier |-> category.tier,
         parent |-> category.parent, confidence |-> confidence,
         match_count |-> 1, keywords |-> <<str_lower(category.name)>>]
  IN  Entry(get_category_by_id(id))

(* an element of the categories list of the classifier's reply *)
SemanticCategory(id, confidence) ==
  LET Entry(category) ==
        [id |-> category.id, name |-> category.name, confidence |-> confidence]
  IN  Entry(get_category_by_id(id))

(* deterministic lists name a category once: map_keywords_to_categories
   keeps one entry per category id *)
DeterministicLists ==
  { d \in Lists({ DeterministicCategory(id, c) : id \in {1118, 1121}, c \in {85, 95} },
                MaxListLen) :
      \A i, j \in 1..Len(d) : d[i].id = d[j].id => i = j }

(* the classifier's lists are whatever the remote service answers *)
SemanticLists ==
  Lists({ SemanticCategory(id, c) : id \in {1118, 1121, 1145}, c \in {50, 95} },
        MaxListLen)

LibraryInit ==
  /\ self = ProductMapper(FALSE, FALSE)
  /\ ncalls = 0
  /\ last = [op |-> "__init__"]

(* ProductMapper._merge_results(deterministic, semantic) *)
MergeResults ==
  /\ ncalls = 0
  /\ ncalls' = ncalls + 1
  /\ \E deterministic \in DeterministicLists, semantic \in SemanticLists :
       last' = [op |-> "_merge_results", deterministic |-> deterministic,
                semantic |-> semantic,
                result |-> _merge_results(deterministic, semantic)]
  /\ UNCHANGED self

MaxCategories == 5

(* a category of the classifier's reply that the taxonomy does not have *)
UnknownCategory == [id |-> 9999, name |-> "Unknown", confidence |-> 50]

(* the results _format_result is given: the source of the mode and its
   categories, each named once; the deterministic ones (a tier-1, three
   tier-2 and a tier-3 category) as the keyword matcher builds them, the
   others as the classifier's reply has them *)
FormatResults ==
  LET Once(lists) ==
        { q \in lists : \A i, j \in 1..Len(q) : q[i].id = q[j].id => i = j }
  IN  { [source |-> "deterministic", categories |-> q] :
          q \in Once(Lists({ DeterministicCategory(id, 95) :
                               id \in {1115, 1118, 1121, 1125, 1145} },
                           MaxCategories)) }
      \cup
      { [source |-> source, categories |-> q] :
          source \in {"semantic", "hybrid"},
          q \in Once(Lists({ SemanticCategory(id, 80) : id \in {1115, 1118, 1121, 1145} }
                             \cup {UnknownCategory},
                           MaxCategories)) }

FormatProduct ==
  ProductOf(ProductFields(Call(AppleWatch[1], AppleWatch[2], None, None,
                               None, None, TRUE)))

(* ProductMapper._format_result(result, product, include_secondary) *)
FormatResult ==
  /\ ncalls = 0
  /\ ncalls' = ncalls + 1
  /\ \E result \in FormatResults, include_secondary \in BOOLEAN :
       last' = [op |-> "_format_result", categories |-> result.categories,
                include_secondary |-> include_secondary,
                result |-> _format_result(result, FormatProduct, include_secondary)]
  /\ UNCHANGED self

MaxKeywords == 6

(* keywords handed to map_keywords_to_categories: two that resolve to
   category 1118, one that resolves to category 1116, written with a
   capital and a trailing blank, and one the table does not have *)
KeywordPool == {"smartphone", "phone", "Laptop ", "xyzabc123"}

(* map_keywords_to_categories(keywords) *)
MapKeywords ==
  /\ ncalls = 0
  /\ ncalls' = ncalls + 1
  /\ \E keywords \in Lists(KeywordPool, MaxKeywords) :
       last' = [op |-> "map_keywords_to_categories", keywords |-> keywords,
                result |-> map_keywords_to_categories(keywords)]
  /\ UNCHANGED self

MaxWords == 3

(* the words the texts handed to find_best_match are made of: a word of
   two letters, one with a capital, single-word keywords ("phone", "watch")
   and the words of the phrases "smart home", "home improvement" and
   "apple watch" *)
WordPool == {"smart", "home", "improvement", "phone", "tv", "Watch", "apple", "big"}

(* find_best_match(text), the text being words put together by blanks or
   by commas *)
FindBestMatch ==
  /\ ncalls = 0
  /\ ncalls' = ncalls + 1
  /\ \E words \in Lists(WordPool, MaxWords), sep \in {" ", ", "} :
       \E text \in {str_join(sep, words)} :
         last' = [op |-> "find_best_match", words |-> words, text |-> text,
                  result |-> find_best_match(text)]
  /\ UNCHANGED self

(* str.upper() of one character *)
UpperChar(c) ==
  IF c \in CharsOf(LOWER)
    THEN Chr(UPPER, CHOOSE i \in 1..Len(LOWER) : Chr(LOWER, i) = c)
    ELSE c

(* a keyword as a caller may write it: in lower case, in capitals or with
   a capital first letter, and with nothing, blanks, or a tab and a line
   end around it *)
Written(keyword, case, pad) ==
  LET Cased ==
        IF case = "upper" THEN MapChars(UpperChar, keyword)
        ELSE IF case = "capital"
          THEN UpperChar(Chr(keyword, 1)) \o SubSeq(keyword, 2, Len(keyword))
        ELSE keyword
  IN  IF pad = "blanks" THEN "  " \o Cased \o " "
      ELSE IF pad = "tabs" THEN "\t" \o Cased \o "\n"
      ELSE Cased

(* keys of KEYWORD_MAPPINGS (a word, a phrase, a key of two letters, one
   with a hyphen) and strings that are not keys: a part of a key, a phrase
   with two blanks, an unknown word *)
KeywordBases ==
  {"smartphone", "smart home", "tv", "e-commerce",
   "phon", "smart  home", "xyzabc123"}

(* map_keyword_to_category(keyword) *)
MapKeyword ==
  /\ ncalls = 0
  /\ ncalls' = ncalls + 1
  /\ \E base \in KeywordBases, case \in {"lower", "upper", "capital"},
        pad \in {"none", "blanks", "tabs"} :
       \E keyword \in {Written(base, case, pad)} :
         last' = [op |-> "map_keyword_to_category", base |-> base,
                  keyword |-> keyword,
                  result |-> map_keyword_to_category(keyword)]
  /\ UNCHANGED self

(* get_category_path(id) for an id of the table, and get_tier1_parent of
   the id of the first category of the path *)
CategoryPath ==
  /\ ncalls = 0
  /\ ncalls' = ncalls + 1
  /\ \E id \in DOMAIN IAB_AD_PRODUCT_TAXONOMY :
       \E path \in {get_category_path(id)} :
         last' = [op |-> "get_category_path", id |-> id, path |-> path,
                  tier1 |-> IF Len(path) > 0 THEN get_tier1_parent(path[1].id)
                            ELSE Absent]
  /\ UNCHANGED self

(* ids the table does not have *)
OtherIds == {0, 1119, 9999, -5}

(* the ids handed to the lookups, with the integer each denotes (None when
   it denotes none): every id of the table and some others, as an int, as
   a numeric string, as a numeric string with whitespace around it and as
   a code, and values that are no id at all *)
IdInputs ==
  { [id |-> PyInt(n), form |-> "int", denotes |-> PyInt(n)] :
      n \in DOMAIN IAB_AD_PRODUCT_TAXONOMY \cup OtherIds }
  \cup
  { [id |-> PyStr(ToString(n)), form |-> "str", denotes |-> PyInt(n)] :
      n \in DOMAIN IAB_AD_PRODUCT_TAXONOMY \cup OtherIds }
  \cup
  { [id |-> PyStr(" " \o ToString(n) \o "\n"), form |-> "str", denotes |-> PyInt(n)] :
      n \in DOMAIN IAB_AD_PRODUCT_TAXONOMY \cup OtherIds }
  \cup
  { [id |-> PyStr(get_iab_code(n)), form |-> "code", denotes |-> PyInt(n)] :
      n \in DOMAIN IAB_AD_PRODUCT_TAXONOMY \cup OtherIds }
  \cup
  { [id |-> x, form |-> "malformed", denotes |-> None] :
      x \in { PyStr("abc"), PyStr(""), PyStr("1121x"), PyStr("11.5"),
              PyStr("1__121"), PyStr("IAB-AP-abc"), PyStr("IAB-AP-"),
              PyStr("iab-ap-1121"), None } }

(* is_valid_category(id) *)
IsValidCategory ==
  /\ ncalls = 0
  /\ ncalls' = ncalls + 1
  /\ \E i \in IdInputs :
       last' = [op |-> "is_valid_category", id |-> i.id, form |-> i.form,
                denotes |-> i.denotes, result |-> is_valid_category(i.id)]
  /\ UNCHANGED self

(* get_category_by_id(id) *)
GetCategoryById ==
  /\ ncalls = 0
  /\ ncalls' = ncalls + 1
  /\ \E i \in IdInputs :
       last' = [op |-> "get_category_by_id", id |-> i.id, form |-> i.form,
                denotes |-> i.denotes, result |-> get_category_by_id_of(i.id)]
  /\ UNCHANGED self

(* the calls whose product dict is built without a fault, and a call whose
   keywords resolve to two categories, one of them twice *)
BuiltRequests ==
  { a \in Requests :
      /\ Truthy(a.title) \/ Truthy(a.description)
      /\ BuildFault(ProductFields(a)).kind = "return" }
  \cup { Call(PyStr("Tablet"), None, None, PyList(<<"smartphone", "phone">>),
              PyStr("deterministic"), None, TRUE) }

(* the thresholds _map_deterministic is given: the default, the confidence
   of one keyword, and two above it *)
Thresholds == {DEFAULT_MIN_CONFIDENCE, 95, 96, 97}

(* ProductMapper._map_deterministic(product, min_confidence), under every
   order of the keyword set *)
MapDeterministic ==
  /\ ncalls = 0
  /\ ncalls' = ncalls + 1
  /\ \E a \in BuiltRequests, min_confidence \in Thresholds :
       \E all_keywords \in KeywordOrders(a) :
         \E d \in {_map_deterministic(ProductOf(ProductFields(a)), min_confidence,
                                      all_keywords)} :
           last' = [op |-> "_map_deterministic", args |-> a,
                    min_confidence |-> min_confidence,
                    all_keywords |-> all_keywords,
                    result |-> d.outcome, direct |-> d.direct]
  /\ UNCHANGED self

(* the lookups of an id listed in IAB_AD_PRODUCT_TIER1, and
   get_tier1_categories() *)
Tier1Category ==
  /\ ncalls = 0
  /\ ncalls' = ncalls + 1
  /\ \E id \in DOMAIN IAB_AD_PRODUCT_TIER1 :
       last' = [op |-> "tier1", id |-> id,
                valid |-> is_valid_category(PyInt(id)),
                found |-> get_category_by_id_of(PyInt(id)),
                tier1_categories |-> get_tier1_categories]
  /\ UNCHANGED self

LibraryNext ==
  \/ MergeResults \/ FormatResult
  \/ MapKeywords \/ FindBestMatch \/ MapKeyword
  \/ CategoryPath \/ IsValidCategory \/ GetCategoryById
  \/ MapDeterministic \/ Tier1Category

LibrarySpec == LibraryInit /\ [][LibraryNext]_vars

(***************************************************************************)
(* get_category_path step by step, on any parent table.  A third           *)
(* specification: the table is a small one, well formed or not, and each   *)
(* step is one evaluation of the loop condition or one run of the loop     *)
(* body.  last holds the call's frame: the table, the id, current (0 for   *)
(* None) and path (the ids of its categories).                             *)
(***************************************************************************)
MaxPathIds == 3

MaxPathLen == 4

PathIds == 1..MaxPathIds

(* the tables over PathIds: each id has a tier and a parent id or none *)
PathTables == [PathIds -> [tier : 1..3, parent : PathIds \cup {NoParent}]]

(* IAB_AD_PRODUCT_TAXONOMY.get(id) on the table: the id, 0 for None *)
PathGet(table, id) == IF id \in DOMAIN table THEN id ELSE NoParent

PathInit ==
  /\ self = ProductMapper(FALSE, FALSE)
  /\ ncalls = 0
  /\ last = [op |-> "__init__"]

(* get_category_path(id) is called: path = [], current = get_category_by_id(id) *)
PathCall ==
  /\ ncalls = 0
  /\ ncalls' = ncalls + 1
  /\ \E table \in PathTables, id \in PathIds \cup {MaxPathIds + 1} :
       last' = [op |-> "get_category_path", table |-> table, id |-> id,
                current |-> PathGet(table, id), path |-> <<>>, pc |-> "while"]
  /\ UNCHANGED self

(* the loop body: path.insert(0, current), then current becomes its parent
   or None.  The list grows with every run; the frame keeps its first
   MaxPathLen elements. *)
PathStep ==
  /\ last.op = "get_category_path"
  /\ last.pc = "while"
  /\ last.current # NoParent
  /\ last' = [last EXCEPT
                !.path = SubSeq(<<last.current>> \o @, 1,
                                Min(Len(@) + 1, MaxPathLen)),
                !.current = IF last.table[last.current].parent # NoParent
                              THEN PathGet(last.table, last.table[last.current].parent)
                              ELSE NoParent]
  /\ UNCHANGED <<self, ncalls>>

(* the loop condition fails: return path *)
PathReturn ==
  /\ last.op = "get_category_path"
  /\ last.pc = "while"
  /\ last.current = NoParent
  /\ last' = [last EXCEPT !.pc = "return"]
  /\ UNCHANGED <<self, ncalls>>

PathNext == PathCall \/ PathStep \/ PathReturn

(* the interpreter keeps running the call *)
PathSpec == PathInit /\ [][PathNext]_vars /\ WF_vars(PathNext)

(***************************************************************************)
(* map_product called from several threads on one mapper.  A fourth        *)
(* specification: the mapper has no cache and no client, each thread maps  *)
(* a product the keyword matcher resolves, in deterministic mode.  The     *)
(* code takes no lock; `self.stats[k] += n` reads the counter and then     *)
(* writes it, and other threads may run in between.  last holds the        *)
(* threads' frames.                                                        *)
(***************************************************************************)
MaxThreads == 2

Threads == 1..MaxThreads

(* the counters a successful deterministic call updates, in the order in
   which it updates them: mapper.py 134, 260, 186 *)
UpdatedCounters == <<"requests", "deterministic_matches", "total_latency_ms">>

ConcurrentInit ==
  /\ self = ProductMapper(FALSE, FALSE)
  /\ ncalls = 0
  /\ last = [op |-> "threads", frames |-> [t \in Threads |-> [pc |-> "idle"]]]

(* thread t calls map_product; elapsed is what it will add to
   total_latency_ms *)
ThreadCall(t) ==
  /\ last.frames[t].pc = "idle"
  /\ \E elapsed \in 0..MaxLatency :
       last' = [last EXCEPT !.frames[t] =
                  [pc |-> "load", k |-> 1, elapsed |-> elapsed, value |-> 0]]
  /\ ncalls' = ncalls + 1
  /\ UNCHANGED self

(* thread t reads the counter it is about to update *)
ThreadLoad(t) ==
  /\ last.frames[t].pc = "load"
  /\ last' = [last EXCEPT
                !.frames[t].pc = "store",
                !.frames[t].value = self.stats[UpdatedCounters[last.frames[t].k]]]
  /\ UNCHANGED <<self, ncalls>>

(* thread t writes the value it read plus its increment, and goes on to
   the next counter or returns *)
ThreadStore(t) ==
  /\ last.frames[t].pc = "store"
  /\ LET Stored(f) ==
           /\ self' = [self EXCEPT
                         !.stats[UpdatedCounters[f.k]] =
                           f.value + (IF UpdatedCounters[f.k] = "total_latency_ms"
                                        THEN f.elapsed ELSE 1)]
           /\ last' = [last EXCEPT
                         !.frames[t].pc = IF f.k < Len(UpdatedCounters)
                                            THEN "load" ELSE "return",
                         !.frames[t].k = IF f.k < Len(UpdatedCounters)
                                           THEN f.k + 1 ELSE f.k]
     IN  Stored(last.frames[t])
  /\ UNCHANGED ncalls

ConcurrentNext == \E t \in Threads : ThreadCall(t) \/ ThreadLoad(t) \/ ThreadStore(t)

ConcurrentSpec == ConcurrentInit /\ [][ConcurrentNext]_vars
(***************************************************************************)
(* Properties.                                                             *)
(***************************************************************************)
(* the last operation was a map_product call *)
Called == last.op = "map_product"

(* ... that returned an envelope *)
Returned == Called /\ last.outcome.kind = "return"

Envelope == last.outcome.value

(* the deterministic step ended with a category of confidence >= 0.9 *)
HighConfidence(det) ==
  /\ det # Absent
  /\ det.kind = "return"
  /\ \E i \in 1..Len(det.value.categories) :
       det.value.categories[i].confidence >= CONFIDENCE_HIGH

IdsOf(categories) == [i \in 1..Len(categories) |-> categories[i].id]

(* C1: in hybrid mode on a mapper with a classifier, a call whose
   deterministic step yields a category of confidence >= 0.9 returns the
   deterministic result (its primary category and confidence, its further
   categories as the secondary ones) with source "deterministic", and
   classify_product is not called. *)
C1_HybridShortCircuit ==
  (Called /\ last.use_mode = "hybrid" /\ self.client /\ HighConfidence(last.det)) =>
    /\ Returned
    /\ Envelope.success
    /\ Envelope.source = "deterministic"
    /\ Envelope.iab_product.primary_id = last.det.value.categories[1].id
    /\ Envelope.iab_product.confidence = last.det.value.categories[1].confidence
    /\ Len(last.det.value.categories) > 1 =>
         IdsOf(Envelope.iab_product.secondary) =
           IdsOf(ListSlice(last.det.value.categories, 1, 1 + MAX_SECONDARY))
    /\ last.calls = 0

C1_Witness ==
  /\ Called /\ last.use_mode = "hybrid" /\ self.client /\ HighConfidence(last.det)
  /\ Len(last.det.value.categories) > 1
  /\ Returned /\ Envelope.source = "deterministic" /\ last.calls = 0

(* the call before the last operation, when the last operation is a call
   that directly follows one *)
Previous == last.before.last

(* the last operation repeats the request of the call directly before it,
   which returned a success *)
RepeatsSuccess ==
  /\ Called
  /\ Previous.op = "map_product"
  /\ Previous.args = last.args
  /\ Previous.outcome.kind = "return"
  /\ Previous.outcome.value.success

(* C2: with caching enabled, a call that repeats the request of the call
   directly before it (no clear, no expiry in between), that one having
   returned a success, returns cached = true and the same iab_product. *)
C2_RepeatIsCached ==
  (self.cache # None /\ RepeatsSuccess) =>
    /\ Returned
    /\ Envelope.cached = TRUE
    /\ Envelope.iab_product = Previous.outcome.value.iab_product

C2_Witness ==
  /\ self.cache # None /\ RepeatsSuccess
  /\ Returned /\ Envelope.cached = TRUE /\ last.hit

(* C3: in semantic mode on a mapper without a classifier, every call with
   a non-empty title or description returns a failure envelope with the
   ClientUnavailable error, whatever calls preceded it. *)
C3_SemanticWithoutClient ==
  (/\ Called /\ last.use_mode = "semantic" /\ ~self.client
   /\ (Truthy(last.args.title) \/ Truthy(last.args.description))) =>
    /\ Returned
    /\ ~Envelope.success
    /\ Envelope.error = CLIENT_UNAVAILABLE

(* the envelope of a fault caught by map_product's except clause: a failure
   that is neither MissingInput nor NoMatch *)
FaultEnvelope ==
  /\ Returned
  /\ ~Envelope.success
  /\ Envelope.error \notin {MISSING_INPUT, NO_MATCH}

(* C4: no fault raised while a call is served reaches the caller: the call
   returns an envelope, and when that is the envelope of a fault the
   errors counter has gone up by exactly one. *)
C4_NoFaultPropagates ==
  Called =>
    /\ last.outcome.kind = "return"
    /\ FaultEnvelope => self.stats.errors = last.before.stats.errors + 1

(* x is None or a string that is empty once trimmed *)
EmptyAfterTrim(x) == x = None \/ (x.ty = "str" /\ str_strip(x.v) = "")

(* C5: a call whose title and description are both empty or absent after
   trimming fails with MissingInput, whatever its other fields. *)
C5_MissingInput ==
  (Called /\ EmptyAfterTrim(last.args.title) /\ EmptyAfterTrim(last.args.description)) =>
    /\ Returned
    /\ ~Envelope.success
    /\ Envelope.error = MISSING_INPUT

(* the items of the TTLCache of a mapper's cache *)
CacheItems(cache) == IF cache = None THEN <<>> ELSE cache._cache

(* C6: a call that returns success = false leaves the cache's contents as
   they were before it. *)
C6_FailureLeavesCache ==
  (Returned /\ ~Envelope.success) =>
    CacheItems(self.cache) = CacheItems(last.before.cache)

C6_Witness ==
  /\ Returned /\ ~Envelope.success /\ Envelope.error = NO_MATCH
  /\ self.cache # None
  /\ Len(self.cache._cache) = 1
  /\ self.cache._cache = last.before.cache._cache

(* C7: the Apple Watch example in deterministic mode succeeds with primary
   category 1121 and tier-1 label "Consumer Electronics", on every run. *)
C7_AppleWatch ==
  (/\ Called
   /\ last.args = Call(AppleWatch[1], AppleWatch[2], None, None,
                       PyStr("deterministic"), None, TRUE)) =>
    /\ Returned
    /\ Envelope.success
    /\ Envelope.iab_product.primary_id = 1121
    /\ Envelope.iab_product.tier1_label = "Consumer Electronics"

(* C8: every envelope map_product returns carries an integer latency_ms. *)
C8_LatencyCarried ==
  Returned => ("latency_ms" \in DOMAIN Envelope /\ Envelope.latency_ms \in Int)

Explanation == Envelope.iab_product.explanation

(* C9: every success envelope carries an explanation keyed by its source:
   "Matched keywords: ..." for deterministic, the fixed strings for
   semantic and hybrid. *)
C9_Explanation ==
  (Returned /\ Envelope.success) =>
    /\ "explanation" \in DOMAIN Envelope.iab_product
    /\ Envelope.source = "deterministic" =>
         SubSeq(Explanation, 1, 18) = "Matched keywords: "
    /\ Envelope.source = "semantic" =>
         Explanation = "Semantic classification based on product content"
    /\ Envelope.source = "hybrid" =>
         Explanation = "Combined deterministic and semantic classification"

(* C10: a call invokes classify_product at most once, and not at all in
   deterministic mode, on a cache hit or on a MissingInput failure. *)
C10_ClassifierCalls ==
  Called =>
    /\ last.calls <= 1
    /\ (\/ last.use_mode = "deterministic"
        \/ last.hit
        \/ (Returned /\ ~Envelope.success /\ Envelope.error = MISSING_INPUT))
         => last.calls = 0

C10_Witness ==
  /\ Called /\ last.use_mode = "hybrid" /\ last.calls = 1
  /\ last.before.last.op = "map_product" /\ last.before.last.calls = 1


(* the envelope map_product returns in deterministic mode when
   _map_deterministic ends as det: the formatted result, or the failure
   envelope of the except clause *)
DeterministicEnvelope(det, a) ==
  IF det.kind = "raise"
    THEN [success |-> FALSE, error |-> det.exc]
    ELSE _format_result(det.value, ProductOf(ProductFields(a)), a.include_secondary)

(* C11: on a mapper without a classifier, a call in hybrid mode that
   reaches the mode dispatch returns what deterministic mode returns for the
   same request: the same success flag, the same iab_product on success and
   the same error on failure. *)
C11_HybridDegrades ==
  (Called /\ last.use_mode = "hybrid" /\ ~self.client /\ ~last.hit
     /\ last.det # Absent) =>
    /\ Returned
    /\ LET Same(e) ==
             /\ Envelope.success = e.success
             /\ IF e.success THEN Envelope.iab_product = e.iab_product
                ELSE Envelope.error = e.error
       IN  Same(DeterministicEnvelope(last.det, last.args))

C11_Witness ==
  /\ Called /\ last.use_mode = "hybrid" /\ ~self.client /\ ~last.hit
  /\ last.det # Absent /\ last.det.kind = "return"
  /\ Len(last.det.value.categories) > 1
  /\ Returned /\ Envelope.success /\ last.calls = 0
  /\ "secondary" \in DOMAIN Envelope.iab_product

(* the last step called _merge_results *)
Merged == last.op = "_merge_results"

(* the lists of the ids of a list of categories, as a set *)
IdSet(categories) == { categories[i].id : i \in 1..Len(categories) }

(* the position of the first category of q with this id *)
FirstIndex(q, id) == CHOOSE i \in 1..Len(q) : q[i].id = id /\ \A j \in 1..(i - 1) : q[j].id # id

(* C12: _merge_results returns the union by category id of the two lists,
   one entry per id.  An id in both lists has the confidence of its
   deterministic entry + 0.1, capped at 0.99, and the tags of both sources;
   an id in one list only has its confidence in that list and the tag of
   that source alone.  The result is in descending order of confidence,
   entries of equal confidence in the order deterministic list first, then
   semantic list. *)
C12_MergeUnion ==
  Merged =>
    LET Holds(d, s, res) ==
          /\ IdSet(res) = IdSet(d) \cup IdSet(s)
          /\ \A i, j \in 1..Len(res) : res[i].id = res[j].id => i = j
          /\ \A i \in 1..Len(res) :
               IF res[i].id \in IdSet(d) /\ res[i].id \in IdSet(s)
                 THEN /\ \E k \in 1..Len(d) :
                           /\ d[k].id = res[i].id
                           /\ res[i].confidence = Min(99, d[k].confidence + 10)
                      /\ res[i].sources = <<"deterministic", "semantic">>
               ELSE IF res[i].id \in IdSet(d)
                 THEN /\ \E k \in 1..Len(d) :
                           d[k].id = res[i].id /\ res[i].confidence = d[k].confidence
                      /\ res[i].sources = <<"deterministic">>
               ELSE /\ \E k \in 1..Len(s) :
                         s[k].id = res[i].id /\ res[i].confidence = s[k].confidence
                    /\ res[i].sources = <<"semantic">>
          /\ \A i, j \in 1..Len(res) :
               i < j =>
                 /\ res[i].confidence >= res[j].confidence
                 /\ res[i].confidence = res[j].confidence =>
                      FirstIndex(d \o s, res[i].id) < FirstIndex(d \o s, res[j].id)
    IN  Holds(last.deterministic, last.semantic, last.result)

(* the last step called _format_result, which returned a success envelope *)
Formatted == last.op = "_format_result" /\ last.result.success

(* the tier-1 category a category of the table descends from *)
Tier1Ancestor(id) ==
  LET Up(c) == IF c.parent = NoParent THEN c ELSE IAB_AD_PRODUCT_TAXONOMY[c.parent]
  IN  Up(Up(IAB_AD_PRODUCT_TAXONOMY[id]))

(* C13: in a success envelope the primary category is the first of the
   result's categories; tier1, tier1_id and tier1_label are present exactly
   when the primary category has a tier-1 ancestor other than itself, and
   name it; secondary is present exactly when include_secondary holds and
   there is more than one category, and lists the categories ranked 2 to 4
   (at most 3) in order. *)
C13_EnvelopeShape ==
  Formatted =>
    LET Shape(cats, p, known) ==
          /\ p.primary_id = cats[1].id
          /\ p.primary = get_iab_code(cats[1].id)
          /\ p.confidence = cats[1].confidence
          /\ \A k \in {"tier1", "tier1_id", "tier1_label"} :
               k \in DOMAIN p <=> (known /\ Tier1Ancestor(cats[1].id).id # cats[1].id)
          /\ "tier1" \in DOMAIN p =>
               /\ p.tier1_id = Tier1Ancestor(cats[1].id).id
               /\ p.tier1 = get_iab_code(p.tier1_id)
               /\ p.tier1_label = Tier1Ancestor(cats[1].id).name
          /\ "secondary" \in DOMAIN p <=> (last.include_secondary /\ Len(cats) > 1)
          /\ "secondary" \in DOMAIN p =>
               /\ Len(p.secondary) = Min(Len(cats) - 1, 3)
               /\ \A i \in 1..Len(p.secondary) :
                    /\ p.secondary[i].id = cats[i + 1].id
                    /\ p.secondary[i].confidence = cats[i + 1].confidence
    IN  Shape(last.categories, last.result.iab_product,
              last.categories[1].id \in DOMAIN IAB_AD_PRODUCT_TAXONOMY)

C13_Witness ==
  /\ Formatted /\ last.include_secondary
  /\ Len(last.categories) = 5
  /\ last.categories[1].id = 1121
  /\ last.result.iab_product.tier1_id = 1115
  /\ Len(last.result.iab_product.secondary) = 3

(* the last step called map_keywords_to_categories *)
Scored == last.op = "map_keywords_to_categories"

(* the positions of the keywords that resolve to the category id *)
Resolving(keywords, id) ==
  { i \in 1..Len(keywords) :
      \E m \in {map_keyword_to_category(keywords[i])} : m # Absent /\ m.id = id }

(* the ids of the categories the keywords resolve to *)
ResolvedIds(keywords) ==
  { m.id : m \in { map_keyword_to_category(keywords[i]) : i \in 1..Len(keywords) }
             \ {Absent} }

(* C14: map_keywords_to_categories returns one entry per distinct category
   a keyword resolves to; its match_count is the number of input keywords,
   repetitions counted, that resolve to it and its confidence is
   min(0.95 + (match_count - 1) * 0.01, 0.99).  For
   ["smartphone", "smartphone", "phone"] that is one entry with
   match_count 3 and confidence 0.97. *)
C14_MatchCountConfidence ==
  Scored =>
    LET Counts(keywords, res) ==
          /\ IdSet(res) = ResolvedIds(keywords)
          /\ \A i, j \in 1..Len(res) : res[i].id = res[j].id => i = j
          /\ \A i \in 1..Len(res) :
               /\ res[i].match_count = Cardinality(Resolving(keywords, res[i].id))
               /\ res[i].confidence =
                    Min(95 + (res[i].match_count - 1) * 1, 99)
          /\ keywords = <<"smartphone", "smartphone", "phone">> =>
               /\ Len(res) = 1
               /\ res[1].match_count = 3
               /\ res[1].confidence = 97
    IN  Counts(last.keywords, last.result)

C14_Witness ==
  /\ Scored
  /\ Len(last.result) = 1
  /\ last.result[1].match_count = 6
  /\ last.result[1].confidence = 99
  /\ "smartphone" \in Range(last.keywords) /\ "phone" \in Range(last.keywords)

(* C15: the entries come in descending order of match_count, entries of
   equal match_count in the order in which the first keyword resolving to
   each was met. *)
C15_RankOrder ==
  Scored =>
    LET First(keywords, id) ==
          CHOOSE i \in Resolving(keywords, id) :
            \A j \in Resolving(keywords, id) : i <= j
        Ordered(keywords, res) ==
          \A i, j \in 1..Len(res) :
            i < j =>
              /\ res[i].match_count >= res[j].match_count
              /\ res[i].match_count = res[j].match_count =>
                   First(keywords, res[i].id) < First(keywords, res[j].id)
    IN  Ordered(last.keywords, last.result)

(* the category met first has the smaller match count and comes second *)
C15_Witness ==
  /\ Scored
  /\ last.keywords = <<"Laptop ", "xyzabc123", "phone", "smartphone">>
  /\ Len(last.result) = 2
  /\ last.result[1].id = 1118 /\ last.result[1].match_count = 2
  /\ last.result[2].id = 1116 /\ last.result[2].match_count = 1

(* the last step called find_best_match *)
Searched == last.op = "find_best_match"

(* the words of a text in lower case, those of one or two letters left out *)
Remaining(words) ==
  LET Long(w) == Len(w) > 2
  IN  SelectIdx([i \in 1..Len(words) |-> str_lower(words[i])], Long)

IsKeyword(w) == w \in DOMAIN KEYWORD_MAPPINGS

(* C16: find_best_match returns the match of the leftmost remaining word
   that is a keyword; when no remaining word is one, the match of the
   leftmost pair of neighbouring remaining words that is a keyword phrase;
   when there is neither, nothing. *)
C16_FirstMatch ==
  Searched =>
    LET LeftMost(S) == CHOOSE i \in S : \A j \in S : i <= j
        Is(id) == last.result # Absent /\ last.result.id = id
        Policy(w, singles, pairs) ==
          IF singles # {} THEN Is(KEYWORD_MAPPINGS[w[LeftMost(singles)]])
          ELSE IF pairs # {}
            THEN Is(KEYWORD_MAPPINGS[w[LeftMost(pairs)] \o " "
                                       \o w[LeftMost(pairs) + 1]])
          ELSE last.result = Absent
        Found(w) ==
          Policy(w, { i \in 1..Len(w) : IsKeyword(w[i]) },
                 { i \in 1..(Len(w) - 1) : IsKeyword(w[i] \o " " \o w[i + 1]) })
    IN  Found(Remaining(last.words))

(* "smart, tv, home": the phrase is made of the words left when "tv" is
   dropped *)
C16_Witness ==
  /\ Searched
  /\ last.text = "smart, tv, home"
  /\ last.result # Absent /\ last.result.id = 1145

(* the last step called map_keyword_to_category *)
LookedUp == last.op = "map_keyword_to_category"

(* C17: map_keyword_to_category gives a keyword written in any case and
   with any whitespace around it the category of the key it is written
   from, with confidence 0.95, and nothing when the keyword, in lower case
   and trimmed, is not a key of the table ("xyzabc123"). *)
C17_KeywordLookup ==
  LookedUp =>
    IF IsKeyword(last.base)
      THEN /\ last.result # Absent
           /\ last.result.id = KEYWORD_MAPPINGS[last.base]
           /\ last.result.confidence = 95
      ELSE last.result = Absent

C17_Witness ==
  /\ LookedUp
  /\ last.keyword = "\tSMART HOME\n"
  /\ last.result # Absent /\ last.result.id = 1145 /\ last.result.confidence = 95

(* the last step called get_category_path *)
PathTaken == last.op = "get_category_path"

(* C18: for every id of the taxonomy, get_category_path(id) has as many
   elements as the category's tier, begins with a tier-1 category and ends
   with the category itself, each element is the parent of the next, and
   get_tier1_parent of the first element's id is the first element. *)
C18_PathWellFormed ==
  PathTaken =>
    LET WellFormed(category, path) ==
          /\ Len(path) = category.tier
          /\ path[1].tier = 1
          /\ path[Len(path)] = category
          /\ \A i \in 1..(Len(path) - 1) : path[i + 1].parent = path[i].id
          /\ last.tier1 = path[1]
    IN  WellFormed(IAB_AD_PRODUCT_TAXONOMY[last.id], last.path)

C18_Witness ==
  /\ PathTaken
  /\ last.id = 1121
  /\ IdsOf(last.path) = <<1115, 1120, 1121>>
  /\ last.tier1.id = 1115

(* the last step called is_valid_category *)
Validated == last.op = "is_valid_category"

(* C19: is_valid_category never raises; for an id given as an integer, a
   numeric string or an "IAB-AP-<id>" code it returns whether the id is in
   the taxonomy table, and for a value that is none of these it returns
   false. *)
C19_IsValid ==
  Validated =>
    /\ last.result.kind = "return"
    /\ last.result.value =
         (last.form # "malformed" /\ last.denotes.v \in DOMAIN IAB_AD_PRODUCT_TAXONOMY)

C19_Witness ==
  /\ Validated
  /\ last.id = PyStr("IAB-AP-1121")
  /\ last.result = Return(TRUE)

(* the last step called get_category_by_id *)
Fetched == last.op = "get_category_by_id"

(* C20: get_category_by_id never raises; for an integer id or an
   "IAB-AP-<id>" code it returns the category of that id (absent when the
   table has none), and for a string that is not numeric or otherwise
   malformed it returns absent. *)
C20_LookupById ==
  Fetched =>
    /\ last.result.kind = "return"
    /\ last.result.value =
         IF last.form # "malformed" /\ last.denotes.v \in DOMAIN IAB_AD_PRODUCT_TAXONOMY
           THEN IAB_AD_PRODUCT_TAXONOMY[last.denotes.v]
           ELSE Absent

(* the envelope the last call returned was served from the cache *)
ServedFromCache ==
  Returned /\ "cached" \in DOMAIN Envelope /\ Envelope.cached = TRUE

(* C21: the counters start at 0; every map_product call adds 1 to requests,
   and 1 to cache_hits exactly when it returns cached = true; no other
   operation but reset_stats changes the two counters.  So without
   reset_stats requests is the number of calls made and cache_hits the
   number of calls answered from the cache. *)
C21_RequestsAndHits ==
  [][ /\ ncalls' = ncalls + 1 =>
           /\ self'.stats.requests = self.stats.requests + 1
           /\ self'.stats.cache_hits =
                self.stats.cache_hits + (IF ServedFromCache' THEN 1 ELSE 0)
      /\ (ncalls' = ncalls /\ last'.op # "reset_stats") =>
           /\ self'.stats.requests = self.stats.requests
           /\ self'.stats.cache_hits = self.stats.cache_hits ]_vars

(* two calls, the second answered from the cache, as in test_stats *)
C21_Witness ==
  /\ ServedFromCache
  /\ ncalls = 2
  /\ self.stats.requests = 2
  /\ self.stats.cache_hits = 1

(* the last step called _map_deterministic, which returned *)
MatchedDeterministic ==
  last.op = "_map_deterministic" /\ last.result.kind = "return"

(* no keyword of the list resolves to a category *)
NoneResolves(keywords) ==
  \A i \in 1..Len(keywords) : map_keyword_to_category(keywords[i]) = Absent

(* C22: every category _map_deterministic returns has a confidence of at
   least min_confidence, and find_best_match is called exactly when none of
   the explicit and extracted keywords resolves to a category, that is when
   the aggregated match list is empty. *)
C22_FilterAndFallback ==
  MatchedDeterministic =>
    /\ \A i \in 1..Len(last.result.value.categories) :
         last.result.value.categories[i].confidence >= last.min_confidence
    /\ last.direct <=> NoneResolves(last.all_keywords)

(* keywords matched two categories, the filter kept the one matched twice,
   and the text was not searched *)
C22_Witness ==
  /\ MatchedDeterministic
  /\ last.min_confidence = 96
  /\ last.all_keywords[1] = "tablet"
  /\ IdsOf(last.result.value.categories) = <<1118>>
  /\ ~last.direct

(* a get_category_path call is under way or over *)
PathCalled == last.op = "get_category_path"

(* the call is over: it returned, or raised an error *)
PathEnded == PathCalled /\ last.pc \in {"return", "raise"}

(* the table keeps the invariants of the taxonomy: a tier-1 category has no
   parent, any other has a parent of the tier above *)
WellFormedTable(table) ==
  \A id \in DOMAIN table :
    IF table[id].tier = 1 THEN table[id].parent = NoParent
    ELSE /\ table[id].parent # NoParent
         /\ table[table[id].parent].tier = table[id].tier - 1

(* C23: every call of get_category_path ends, on a table whose parent
   links form a cycle too, and on a table that keeps the invariants the
   loop body runs at most 3 times. *)
C23_PathTerminates ==
  /\ PathCalled ~> PathEnded
  /\ [](PathCalled /\ WellFormedTable(last.table) => Len(last.path) <= 3)

(* every thread has made its call and returned from it *)
AllReturned ==
  last.op = "threads" /\ \A t \in Threads : last.frames[t].pc = "return"

RECURSIVE SumElapsed(_)
(* what the calls of the threads 1..n added to total_latency_ms *)
SumElapsed(n) == IF n = 0 THEN 0 ELSE SumElapsed(n - 1) + last.frames[n].elapsed

(* C24: once all concurrent calls have returned, requests is the number of
   calls and no increment of a counter is lost: deterministic_matches
   counts every call too and total_latency_ms is the sum of the calls'
   latencies. *)
C24_AtomicCounters ==
  AllReturned =>
    /\ self.stats.requests = ncalls
    /\ self.stats.deterministic_matches = ncalls
    /\ self.stats.total_latency_ms = SumElapsed(MaxThreads)

(* C25: a response served from the cache has the success flag, the source
   and the iab_product that a mapper without a cache computes for the
   arguments of that call, under some order of the keyword set and some
   answer of the classifier. *)
C25_CacheIsTransparent ==
  (Called /\ last.hit /\ Returned) =>
    \E env \in Envs(self.client, last.args) :
      LET Same(w) ==
            /\ w.m.outcome.kind = "return"
            /\ w.formatted.success = Envelope.success
            /\ w.formatted.source = Envelope.source
            /\ w.formatted.iab_product = Envelope.iab_product
      IN  Same(MappingTable[<<self.client, self.mapping_mode, self.min_confidence,
                              last.args, env.all_keywords, env.reply>>])

SecondaryOf(iab_product) ==
  IF "secondary" \in DOMAIN iab_product THEN iab_product.secondary ELSE <<>>

(* C26: a deterministic-mode map_product call that is not answered from the
   cache returns the same primary category and the same secondary list
   under every order in which the merged keywords can be iterated. *)
C26_OrderIndependent ==
  (Called /\ ~last.hit /\ Returned /\ last.use_mode = "deterministic"
     /\ Envelope.success) =>
    \A env \in Envs(self.client, last.args) :
      LET Same(w) ==
            /\ w.m.outcome.kind = "return"
            /\ w.formatted.success
            /\ w.formatted.iab_product.primary_id = Envelope.iab_product.primary_id
            /\ SecondaryOf(w.formatted.iab_product) =
                 SecondaryOf(Envelope.iab_product)
      IN  Same(MappingTable[<<self.client, self.mapping_mode, self.min_confidence,
                              last.args, env.all_keywords, env.reply>>])

(* C27: every success envelope of map_product names a category of the
   taxonomy table: primary_id is one of its ids, primary is "IAB-AP-"
   followed by primary_id, and label is not empty. *)
C27_PrimaryInTaxonomy ==
  (Called /\ Returned /\ Envelope.success) =>
    /\ InTaxonomy(PyInt(Envelope.iab_product.primary_id))
    /\ Envelope.iab_product.primary =
         get_iab_code(Envelope.iab_product.primary_id)
    /\ Envelope.iab_product.label # ""

(* the category c of a merged list is the category of one source, as that
   source gave it: one tag, and the confidence of an entry with its id *)
Unboosted(c, reply) ==
  /\ "sources" \in DOMAIN c
  /\ c.sources = <<"semantic">>
  /\ \E j \in 1..Len(reply.value.categories) :
       /\ reply.value.categories[j].id = c.id
       /\ reply.value.categories[j].confidence = c.confidence

(* C28: the categories of the deterministic step have a confidence between
   0.95 and 0.99; in hybrid mode the classifier is called only when the
   deterministic list is empty; and in a response with source "hybrid" no
   category carries two source tags or a boosted confidence. *)
C28_HybridNeverBoosts ==
  (Called /\ ~last.hit /\ last.det # Absent /\ last.det.kind = "return") =>
    /\ \A i \in 1..Len(last.det.value.categories) :
         last.det.value.categories[i].confidence \in 95..CONFIDENCE_CAP
    /\ (last.use_mode = "hybrid" /\ last.calls > 0) =>
         last.det.value.categories = <<>>
    /\ (Returned /\ Envelope.success /\ Envelope.source = "hybrid") =>
         \A env \in Envs(self.client, last.args) :
           LET Plain(w) ==
                 (/\ w.m.outcome.kind = "return"
                  /\ w.formatted.success
                  /\ w.formatted.source = "hybrid"
                  /\ w.formatted.iab_product = Envelope.iab_product) =>
                   \A i \in 1..Len(w.m.outcome.value.categories) :
                     Unboosted(w.m.outcome.value.categories[i], env.reply)
           IN  Plain(MappingTable[<<self.client, self.mapping_mode,
                                    self.min_confidence, last.args,
                                    env.all_keywords, env.reply>>])

(* C29: the outcome counters of a mapper add up to its requests: every
   call is counted in exactly one of cache_hits, errors,
   deterministic_matches, semantic_matches and no_matches. *)
C29_CountersAddUp ==
  self.stats.requests =
    self.stats.cache_hits + self.stats.errors + self.stats.deterministic_matches
      + self.stats.semantic_matches + self.stats.no_matches

Tier1Looked == last.op = "tier1"

(* C30: every id listed in IAB_AD_PRODUCT_TIER1 is a key of
   IAB_AD_PRODUCT_TAXONOMY: is_valid_category accepts it,
   get_category_by_id finds it, and get_tier1_categories() returns the
   categories of IAB_AD_PRODUCT_TIER1 and no other. *)
C30_Tier1InTaxonomy ==
  Tier1Looked =>
    /\ last.id \in DOMAIN IAB_AD_PRODUCT_TAXONOMY
    /\ last.valid = Return(TRUE)
    /\ last.found.kind = "return" /\ last.found.value # Absent
    /\ IdSet(last.tier1_categories) = DOMAIN IAB_AD_PRODUCT_TIER1
====
